---- MODULE Spec2Model ----
\* The pre-request scripting SDK of insomnia: the dispatch bridge
\* (HttpSendRequest.sendRequest, send-req.ts) and the auth transform table.
EXTENDS Integers, Sequences, FiniteSets, TLC

\* ------------------------------------------------------------------ bounds
\* Number of sendRequest calls a script makes.
MaxCalls == 2
\* Longest redirect chain the engine reports in headerResults.
MaxHops == 2

Calls == 1..MaxCalls

\* JavaScript's undefined, where a string is expected.
Undefined == "undefined"

\* ---------------------------------------------------------- auth constants
AUTH_NONE == "none"
AUTH_BASIC == "basic"
AUTH_DIGEST == "digest"
AUTH_NTLM == "ntlm"
AUTH_OAUTH_1 == "oauth1"
AUTH_OAUTH_2 == "oauth2"
AUTH_AWS_IAM == "iam"
AUTH_HAWK == "hawk"
AUTH_NETRC == "netrc"
AUTH_ASAP == "asap"

HAWK_ALGORITHM_SHA256 == "sha256"

\* ------------------------------------------------------- JavaScript values
\* The values the auth objects hold: strings, booleans, undefined, and the
\* {key, value} entries of a persisted auth array, whose value is any of
\* these again (held as a one-element sequence).
JStr(x) == [t |-> "string", s |-> x, key |-> "", value |-> <<>>]
JBool(b) == [t |-> "boolean", s |-> IF b THEN "true" ELSE "false", key |-> "", value |-> <<>>]
JUndef == [t |-> "undefined", s |-> "", key |-> "", value |-> <<>>]
JEntry(k, v) == [t |-> "object", s |-> "", key |-> k, value |-> <<v>>]

\* ToBoolean.
Truthy(v) ==
    CASE v.t = "string" -> v.s # ""
      [] v.t = "boolean" -> v.s = "true"
      [] v.t = "undefined" -> FALSE
      [] OTHER -> TRUE

Or_NoDefault(a, b) == a

\* a || b
Or(a, b) == IF Truthy(a) THEN a ELSE b

\* o.k: undefined for a property the object lacks.
Get(o, k) == IF k \in DOMAIN o THEN o[k] ELSE JUndef

EmptyObject == [k \in {} |-> JUndef]

\* ------------------------------------------------------------ transformAuth
TransformAuth(type, oldAuth) ==
    CASE type = AUTH_NONE -> EmptyObject
      [] type = AUTH_BASIC ->
            [type |-> JStr(type),
             useISO88591 |-> Or(Get(oldAuth, "useISO88591"), JBool(FALSE)),
             disabled |-> Or(Get(oldAuth, "disabled"), JBool(FALSE)),
             username |-> Or(Get(oldAuth, "username"), JStr("")),
             password |-> Or(Get(oldAuth, "password"), JStr(""))]
      [] type \in {AUTH_DIGEST, AUTH_NTLM} ->
            [type |-> JStr(type),
             disabled |-> Or(Get(oldAuth, "disabled"), JBool(FALSE)),
             username |-> Or(Get(oldAuth, "username"), JStr("")),
             password |-> Or(Get(oldAuth, "password"), JStr(""))]
      [] type = AUTH_OAUTH_1 ->
            [type |-> JStr(type),
             disabled |-> JBool(FALSE),
             signatureMethod |-> JStr("HMAC-SHA1"),
             consumerKey |-> JStr(""),
             consumerSecret |-> JStr(""),
             tokenKey |-> JStr(""),
             tokenSecret |-> JStr(""),
             privateKey |-> JStr(""),
             version |-> JStr("1.0"),
             nonce |-> JStr(""),
             timestamp |-> JStr(""),
             callback |-> JStr("")]
      [] type = AUTH_OAUTH_2 ->
            [type |-> JStr(type), grantType |-> JStr("authorization_code")]
      [] type = AUTH_AWS_IAM ->
            [type |-> JStr(type),
             disabled |-> Or(Get(oldAuth, "disabled"), JBool(FALSE)),
             accessKeyId |-> Or(Get(oldAuth, "accessKeyId"), JStr("")),
             secretAccessKey |-> Or(Get(oldAuth, "secretAccessKey"), JStr("")),
             sessionToken |-> Or(Get(oldAuth, "sessionToken"), JStr(""))]
      [] type = AUTH_HAWK ->
            [type |-> JStr(type), algorithm |-> JStr(HAWK_ALGORITHM_SHA256)]
      [] type = AUTH_ASAP ->
            [type |-> JStr(type),
             issuer |-> JStr(""),
             subject |-> JStr(""),
             audience |-> JStr(""),
             additionalClaims |-> JStr(""),
             keyId |-> JStr(""),
             privateKey |-> JStr("")]
      [] OTHER -> [type |-> JStr(type)]

\* --------------------------------------------------- transformAuthentication
\* Array.prototype.find: the first element the predicate holds of, or
\* undefined. The predicate of findValueInObj yields kv.value for a matching
\* key and '' otherwise, so it holds of an entry with the key and a non-empty
\* value; what find returns is that entry.
RECURSIVE FindEntry(_, _)
FindEntry(targetKey, kvs) ==
    IF kvs = <<>> THEN JUndef
    ELSE IF Truthy(IF Head(kvs).key = targetKey THEN Head(kvs).value ELSE JStr(""))
    THEN JEntry(Head(kvs).key, Head(kvs).value)
    ELSE FindEntry(targetKey, Tail(kvs))

\* findValueInObj(targetKey, kvs): '' when the auth object has no array for
\* its scheme. authObj is auth.toJSON(): the type, and the {key, value}
\* array under the scheme's name when there is one.
FindValueInObj(targetKey, authObj) ==
    IF ~authObj.present THEN JStr("") ELSE FindEntry(targetKey, authObj.kvs)

Returned(v) == [threw |-> FALSE, error |-> "", value |-> v]
Thrown(msg) == [threw |-> TRUE, error |-> msg, value |-> EmptyObject]

TransformAuthentication(authObj) ==
    LET F(k) == FindValueInObj(k, authObj) IN
    CASE authObj.type = "noauth" -> Returned(TransformAuth(AUTH_NONE, EmptyObject))
      [] authObj.type = "basic" ->
            Returned(TransformAuth(AUTH_BASIC,
                [useISO88591 |-> JBool(FALSE),
                 disabled |-> JBool(FALSE),
                 username |-> F("username"),
                 password |-> F("password")]))
      [] authObj.type = "digest" ->
            Returned(TransformAuth(AUTH_DIGEST,
                [disabled |-> JBool(FALSE),
                 username |-> F("username"),
                 password |-> F("password")]))
      [] authObj.type = "ntlm" ->
            Returned(TransformAuth(AUTH_NTLM,
                [disabled |-> JBool(FALSE),
                 username |-> F("username"),
                 password |-> F("password")]))
      [] authObj.type = "oauth1" ->
            Returned(TransformAuth(AUTH_OAUTH_1,
                [disabled |-> JBool(FALSE),
                 consumerKey |-> F("consumerKey"),
                 consumerSecret |-> F("consumerSecret"),
                 tokenKey |-> F("token"),
                 tokenSecret |-> F("tokenSecret"),
                 privateKey |-> F("consumerSecret"),
                 version |-> F("version"),
                 nonce |-> F("nonce"),
                 timestamp |-> F("timestamp"),
                 callback |-> F("callback")]))
      [] authObj.type = "oauth2" -> Returned(TransformAuth(AUTH_OAUTH_2, EmptyObject))
      [] authObj.type = "awsv4" ->
            Returned(TransformAuth(AUTH_AWS_IAM,
                [disabled |-> JBool(FALSE),
                 accessKeyId |-> F("accessKey"),
                 secretAccessKey |-> F("secretKey"),
                 sessionToken |-> F("sessionToken")]))
      [] authObj.type = "hawk" -> Returned(TransformAuth(AUTH_HAWK, EmptyObject))
      [] authObj.type = "asap" ->
            Returned(TransformAuth(AUTH_ASAP,
                [issuer |-> F("iss"),
                 subject |-> F("sub"),
                 audience |-> F("aud"),
                 additionalClaims |-> F("claims"),
                 keyId |-> F("kid"),
                 privateKey |-> F("privateKey")]))
      [] authObj.type = "netrc" -> Returned(TransformAuth(AUTH_NETRC, EmptyObject))
      [] OTHER -> Thrown("unknown auth type: " \o authObj.type)

\* new RequestAuth({type}).toJSON(): an auth object of the type alone.
BareAuth(type) == [type |-> type, present |-> FALSE, kvs |-> <<>>]

\* ------------------------------------------------- transformToPreRequestAuth
\* [{key: k, value: auth[k]}, ...] for the keys in order.
RECURSIVE EntriesOf(_, _)
EntriesOf(auth, keys) ==
    IF keys = <<>> THEN <<>>
    ELSE <<[key |-> Head(keys), value |-> Get(auth, Head(keys))]>>
         \o EntriesOf(auth, Tail(keys))

\* {type, [type]: [...]}: the array sits under the property the type names.
PreRequestAuthOf(type, auth, keys) ==
    Returned([type |-> type, present |-> TRUE, kvs |-> EntriesOf(auth, keys)])

\* auth is the flat object; its type, when it has one, is a string.
TransformToPreRequestAuth(auth) ==
    IF ~Truthy(Get(auth, "type")) THEN Returned(BareAuth("noauth"))
    ELSE LET type == auth.type.s IN
    CASE type = "noauth" -> Returned(BareAuth("noauth"))
      [] type = "basic" ->
            PreRequestAuthOf(type, auth,
                <<"useISO88591", "disabled", "username", "password">>)
      [] type \in {"digest", "ntlm"} ->
            PreRequestAuthOf(type, auth, <<"disabled", "username", "password">>)
      [] type = "oauth1" ->
            PreRequestAuthOf(type, auth,
                <<"disabled", "consumerKey", "consumerSecret", "tokenKey",
                  "tokenSecret", "privateKey", "version", "nonce", "timestamp",
                  "callback">>)
      [] type = "oauth2" ->
            PreRequestAuthOf(type, auth, <<"key", "value", "enabled", "send_as">>)
      [] type = "awsv4" ->
            PreRequestAuthOf(type, auth,
                <<"disabled", "accessKeyId", "secretAccessKey", "sessionToken">>)
      [] type = "hawk" ->
            PreRequestAuthOf(type, auth,
                <<"includePayloadHash", "timestamp", "delegation", "app",
                  "extraData", "nonce", "user", "authKey", "authId", "algorithm",
                  "id">>)
      [] type = "asap" ->
            PreRequestAuthOf(type, auth,
                <<"exp", "claims", "sub", "privateKey", "kid", "aud", "iss", "alg",
                  "id">>)
      [] type = "netrc" -> Thrown("net rc is not supported yet")
      [] OTHER -> Thrown("unknown auth type or unsupported auth type: " \o type)

\* ------------------------------------------------------------- the inputs
\* What a script hands to sendRequest: a bare URL string, a Request (with or
\* without an id of its own), a plain options object, or something else.
CallerIds == {"req_1"}

RequestLikes ==
    {[kind |-> "string", id |-> Undefined, authType |-> "noauth"]}
    \cup [kind : {"Request"}, id : CallerIds, authType : {"basic", "bearer"}]
    \cup {[kind |-> "other", id |-> Undefined, authType |-> "noauth"]}

\* uuidv4(): the n-th identifier minted.
Uuid(n) == ToString(n)

RequestIdOf_Minted(finalReqId, id) == "pre-request-script-adhoc-req:" \o id

\* finalReq.id || `pre-request-script-adhoc-req:${id}`
RequestIdOf(finalReqId, id) ==
    IF finalReqId \notin {Undefined, ""}
    THEN finalReqId
    ELSE "pre-request-script-adhoc-req:" \o id

\* fromRequestToCurlOptions: the request id and whether lowering throws.
\* A string gets a fresh adhoc id; a Request keeps its own id when it has one;
\* an unknown auth type makes transformAuthentication throw; any other input
\* reaches the final throw.
FromRequestToCurlOptions(req, id) ==
    IF req.kind = "string"
    THEN [threw |-> FALSE, error |-> "",
          requestId |-> "pre-request-script-adhoc-str-req:" \o id]
    ELSE IF req.kind \in {"Request", "RequestOptions"}
    THEN IF TransformAuthentication(BareAuth(req.authType)).threw
         THEN [threw |-> TRUE,
               error |-> TransformAuthentication(BareAuth(req.authType)).error,
               requestId |-> Undefined]
         ELSE [threw |-> FALSE, error |-> "",
               requestId |-> RequestIdOf(req.id, id)]
    ELSE [threw |-> TRUE,
          error |-> "the request type must be: string | Request | RequestOptions.",
          requestId |-> Undefined]

\* -------------------------------------------------------- the engine's side
\* One HeaderResult per redirect hop: a redirect the engine followed, and the
\* hop that ended the chain.
RedirectHop ==
    [code |-> 302, reason |-> "Found",
     headers |-> <<[name |-> "Location", value |-> "/next"]>>]

OkHop ==
    [code |-> 200, reason |-> "OK",
     headers |-> <<[name |-> "Content-Type", value |-> "text/plain"]>>]

NotFoundHop ==
    [code |-> 404, reason |-> "Not Found",
     headers |-> <<[name |-> "Content-Length", value |-> "0"]>>]

FinalHops == {OkHop, NotFoundHop}

RECURSIVE Redirects(_)
Redirects(n) == IF n = 0 THEN <<>> ELSE <<RedirectHop>> \o Redirects(n - 1)

\* headerResults: empty, or n-1 followed redirects and a final hop.
HeaderResultLists ==
    {<<>>} \cup {Redirects(n - 1) \o <<f>> : n \in 1..MaxHops, f \in FinalHops}

BodyPaths == {Undefined, "/tmp/response-body"}

\* CurlRequestOutput, as far as the bridge reads it.
CurlRequestOutputs ==
    [headerResults : HeaderResultLists, responseBodyPath : BodyPaths,
     elapsedTime : {7}]

\* The engine results that differ in what the bridge's control flow reads:
\* no hop at all or one, a stored body or none.
DispatchOutputs ==
    [headerResults : {<<>>, <<OkHop>>}, responseBodyPath : BodyPaths,
     elapsedTime : {7}]

\* What readCurlResponse resolves with.
BodyResults ==
    {[body |-> "stored body", error |-> ""],
     [body |-> "", error |-> "ENOENT"]}

\* A value in the callback's error slot, or a thrown value: a string
\* (the messages sendRequest builds) or an error object (name, message).
Str(text) == [isString |-> TRUE, name |-> "", message |-> text]
Err(name, message) == [isString |-> FALSE, name |-> name, message |-> message]

\* What curlRequest (or the wrapper) may throw synchronously.
SyncErrors == {Err("Error", "could not be cloned"), Err("AbortError", "Aborted")}

EngineError == Err("Error", "engine failure")
CallbackError == Err("Error", "thrown by the callback")

\* controller.abort() is called without a reason.
AbortReason == "signal is aborted without reason"

\* The wrapper cancellablePromise({signal, fn}): settles as fn does, unless
\* the signal aborts first, and then rejects with an AbortError.
CancellablePromiseRejection == Err("AbortError", AbortReason)

\* ------------------------------------------------------------------ state
VARIABLES
    phase,            \* per call: where the call stands
    requestId,        \* per call: requestOptions.requestId
    thrown,           \* per call: what sendRequest threw to its caller
    cbLog,            \* per call: the invocations of cb, in order
    aborted,          \* per call: controller.signal.aborted
    engine,           \* per call: the promise curlRequest returned
    engineCalls,      \* per call: how often curlRequest was invoked
    handleAtDispatch, \* per call: was the handle registered when curlRequest was invoked
    result,           \* per call: the CurlRequestOutput the chain received
    read,             \* per call: the promise readCurlResponse returned
    readCalls,        \* per call: how often readCurlResponse was invoked
    bodyResult,       \* per call: what readCurlResponse resolved with
    registry,         \* the process-wide cancel function map: <<request id, handle>> pairs
    engineCancelled,  \* the request ids given to cancelCurlRequest
    uuidCount,        \* how many uuids were minted
    authIn,           \* the auth object handed to an auth transform
    authOut,          \* what the transform returned or threw (<<>>: not run yet)
    oldAuthIn,        \* a type and a flat auth object, handed to transformAuth or transformToPreRequestAuth
    engineAuthOut,    \* what transformAuth returned for it
    preRequestOut,    \* what transformToPreRequestAuth returned or threw
    authAgain,        \* what lowering the pre-request form again returned or threw
    requestOptions,   \* the RequestOptions the Request r was constructed from
    urls,             \* the Url objects there are, in order of construction
    reqs,             \* the Requests r, c (a clone) and n (made from a toJSON()), each <<>> until made
    call,             \* the last call on a Request: its name, target, argument and outcome
    mutations,        \* how many mutating calls were made after the clone
    requestBody,      \* a RequestBody on its own (<<>>: none)
    isEmptyOut,       \* what body.isEmpty() returned or threw (<<>>: not called)
    toStringOut,      \* what body.toString() returned or threw (<<>>: not called)
    curlResult,       \* an engine result handed to fromCurlOutputToResponse (<<>>: none)
    responseOptions,  \* the ResponseOptions a Response was constructed from (<<>>: none)
    response,         \* the Response made, or what making it threw (<<>>: not made)
    lowerIn,          \* the requests handed to fromRequestToCurlOptions, in order
    lowerOut,         \* what each lowering returned or threw
    updateOptions     \* the options handed to update() (<<>>: not called)

bridgeVars ==
    <<phase, requestId, thrown, cbLog, aborted, engine, engineCalls,
      handleAtDispatch, result, read, readCalls, bodyResult, registry,
      engineCancelled, uuidCount>>

authVars == <<authIn, authOut, oldAuthIn, engineAuthOut, preRequestOut, authAgain>>

requestVars ==
    <<requestOptions, urls, reqs, call, mutations, requestBody, isEmptyOut,
      toStringOut>>

\* What the dispatch bridge leaves alone.
liftVars == <<curlResult, responseOptions, response>>

lowerVars == <<lowerIn, lowerOut>>

sdkVars == <<liftVars, lowerVars, updateOptions>>

otherVars == <<authVars, requestVars, sdkVars>>

vars == <<bridgeVars, otherVars>>

BridgeInit ==
    /\ phase = [c \in Calls |-> "Idle"]
    /\ requestId = [c \in Calls |-> Undefined]
    /\ thrown = [c \in Calls |-> <<>>]
    /\ cbLog = [c \in Calls |-> <<>>]
    /\ aborted = [c \in Calls |-> FALSE]
    /\ engine = [c \in Calls |-> "none"]
    /\ engineCalls = [c \in Calls |-> 0]
    /\ handleAtDispatch = [c \in Calls |-> FALSE]
    /\ result = [c \in Calls |-> <<>>]
    /\ read = [c \in Calls |-> "none"]
    /\ readCalls = [c \in Calls |-> 0]
    /\ bodyResult = [c \in Calls |-> <<>>]
    /\ registry = {}
    /\ engineCancelled = {}
    /\ uuidCount = 0

AuthIdle ==
    /\ authIn = BareAuth("noauth")
    /\ authOut = <<>>
    /\ oldAuthIn = <<>>
    /\ engineAuthOut = <<>>
    /\ preRequestOut = <<>>
    /\ authAgain = <<>>

RequestNames == {"r", "c", "n"}

RequestIdle ==
    /\ requestOptions = <<>>
    /\ urls = <<>>
    /\ reqs = [name \in RequestNames |-> <<>>]
    /\ call = <<>>
    /\ mutations = 0
    /\ requestBody = <<>>
    /\ isEmptyOut = <<>>
    /\ toStringOut = <<>>

SdkIdle ==
    /\ curlResult = <<>>
    /\ responseOptions = <<>>
    /\ response = <<>>
    /\ lowerIn = <<>>
    /\ lowerOut = <<>>
    /\ updateOptions = <<>>

Init == BridgeInit /\ AuthIdle /\ RequestIdle /\ SdkIdle

\* ------------------------------------------------- the cancellation registry
\* setCancelRequestFunctionMap(id, fn): the handle is named by the call whose
\* controller and request id its closure holds.
SetCancelRequestFunctionMap(reg, id, h) ==
    {e \in reg : e[1] # id} \cup {<<id, h>>}

DeleteCancelRequestFunctionMap(reg, id) == {e \in reg : e[1] # id}

Registered(reg, id) == \E e \in reg : e[1] = id

HandleOf(reg, id) == (CHOOSE e \in reg : e[1] = id)[2]

\* Registration moved after the invocation of the engine.
RegistryAtDispatch_NotYet(reg, id, h) == reg

\* The registry as curlRequest finds it: sendRequest has registered the
\* handle on the line before the try block.
RegistryAtDispatch(reg, id, h) == SetCancelRequestFunctionMap(reg, id, h)

\* ---------------------------------------------------- the promise chain
\* One invocation of cb.
CbCall(err, resp) == [err |-> err, resp |-> resp]

\* .then(transformedOutput => cb(undefined, transformedOutput)).catch(e => cb(e, undefined))
\* when the chain is fulfilled: a throw of cb lands in the catch handler.
OnFulfilled(resp, cbThrows) ==
    <<CbCall(<<>>, <<resp>>)>>
        \o (IF cbThrows THEN <<CbCall(<<CallbackError>>, <<>>)>> ELSE <<>>)

\* .catch(e => cb(e, undefined)) when the chain is rejected.
OnRejected(e) == <<CbCall(<<e>>, <<>>)>>

\* The catch block of sendRequest: the message it hands to cb.
CatchMessage(err) ==
    IF err.name = "AbortError"
    THEN Str("Request was cancelled: " \o err.message)
    ELSE Str("Something went wrong: " \o err.message)

\* ------------------------------------------------- fromCurlOutputToResponse
LastRedirect_First(headerResults) == headerResults[1]

LastRedirect(headerResults) == headerResults[Len(headerResults)]

\* Reading lastRedirect.code of an empty headerResults is a TypeError.
LiftThrows(output) == Len(output.headerResults) = 0
LiftError == Err("TypeError", "Cannot read properties of undefined")

NeedsBodyRead_Never(output) == FALSE

\* if (!result.responseBodyPath) return new Response(...)
NeedsBodyRead(output) == output.responseBodyPath # Undefined

ResponseHeaders(hop) ==
    [i \in 1..Len(hop.headers) |->
        [key |-> hop.headers[i].name, value |-> hop.headers[i].value]]

\* new Response({code, reason, header, cookie, body, responseTime, status})
ResponseOf(output, body) ==
    LET lastRedirect == LastRedirect(output.headerResults) IN
    [code |-> lastRedirect.code,
     headers |-> ResponseHeaders(lastRedirect),
     body |-> body,
     responseTime |-> output.elapsedTime]

ReadFails_Ignored(br) == FALSE

\* if (bodyResult.error) throw Error(bodyResult.error)
ReadFails(br) == br.error # ""

\* ---------------------------------------------------------------- actions
CancellablePromisePending_UntilAborted(c) == ~aborted[c]

\* The wait of call c is pending: the wrapper has neither settled with the
\* engine's promise nor been aborted.
CancellablePromisePending(c) == phase[c] = "Dispatched"

\* sendRequest(request, cb), up to its return: lowering, registration of the
\* cancel handle, the invocation of the engine, and the catch block when that
\* invocation throws. sync is what the invocation throws (<<>>: nothing).
Dispatch(c, req, sync, cbThrows) ==
    /\ phase[c] = "Idle"
    /\ c > 1 => phase[c - 1] # "Idle"
    /\ uuidCount' = uuidCount + 1
    /\ LET lowered == FromRequestToCurlOptions(req, Uuid(uuidCount + 1))
           id == lowered.requestId
           atDispatch == RegistryAtDispatch(registry, id, c)
       IN
       IF lowered.threw
       THEN /\ phase' = [phase EXCEPT ![c] = "LoweringFailed"]
            /\ thrown' = [thrown EXCEPT ![c] = <<Err("Error", lowered.error)>>]
            /\ UNCHANGED <<requestId, cbLog, engine, engineCalls,
                           handleAtDispatch, registry>>
       ELSE /\ requestId' = [requestId EXCEPT ![c] = id]
            /\ engineCalls' = [engineCalls EXCEPT ![c] = @ + 1]
            /\ handleAtDispatch' =
                   [handleAtDispatch EXCEPT ![c] = <<id, c>> \in atDispatch]
            /\ IF sync = <<>>
               THEN /\ registry' = SetCancelRequestFunctionMap(atDispatch, id, c)
                    /\ engine' = [engine EXCEPT ![c] = "pending"]
                    /\ phase' = [phase EXCEPT ![c] = "Dispatched"]
                    /\ UNCHANGED <<thrown, cbLog>>
               ELSE /\ registry' =
                          DeleteCancelRequestFunctionMap(
                              SetCancelRequestFunctionMap(atDispatch, id, c), id)
                    /\ engine' = [engine EXCEPT ![c] = "threw"]
                    /\ cbLog' = [cbLog EXCEPT
                                   ![c] = <<CbCall(<<CatchMessage(sync[1])>>, <<>>)>>]
                    /\ thrown' = [thrown EXCEPT
                                    ![c] = IF cbThrows THEN <<CallbackError>> ELSE <<>>]
                    /\ phase' = [phase EXCEPT
                                   ![c] = IF sync[1].name = "AbortError"
                                          THEN "Cancelled" ELSE "Failed"]
    /\ UNCHANGED <<aborted, result, read, readCalls, bodyResult, engineCancelled>>

SendRequest(c, req, sync, cbThrows) ==
    Dispatch(c, req, sync, cbThrows) /\ UNCHANGED otherVars

\* The engine's promise resolves with output while the wait is pending: the
\* chain runs fromCurlOutputToResponse up to its return or its await.
EngineResolve(c, output, cbThrows) ==
    /\ UNCHANGED otherVars
    /\ engine[c] = "pending"
    /\ CancellablePromisePending(c)
    /\ engine' = [engine EXCEPT ![c] = "settled"]
    /\ result' = [result EXCEPT ![c] = <<output>>]
    /\ IF LiftThrows(output)
       THEN /\ cbLog' = [cbLog EXCEPT ![c] = OnRejected(LiftError)]
            /\ phase' = [phase EXCEPT ![c] = "Failed"]
            /\ UNCHANGED <<read, readCalls>>
       ELSE IF NeedsBodyRead(output)
       THEN /\ read' = [read EXCEPT ![c] = "pending"]
            /\ readCalls' = [readCalls EXCEPT ![c] = @ + 1]
            /\ phase' = [phase EXCEPT ![c] = "Reading"]
            /\ UNCHANGED cbLog
       ELSE /\ cbLog' = [cbLog EXCEPT
                           ![c] = OnFulfilled(ResponseOf(output, ""), cbThrows)]
            /\ phase' = [phase EXCEPT ![c] = "Completed"]
            /\ UNCHANGED <<read, readCalls>>
    /\ UNCHANGED <<requestId, thrown, aborted, engineCalls, handleAtDispatch,
                   bodyResult, registry, engineCancelled, uuidCount>>

\* The engine's promise rejects while the wait is pending.
EngineReject(c) ==
    /\ UNCHANGED otherVars
    /\ engine[c] = "pending"
    /\ CancellablePromisePending(c)
    /\ engine' = [engine EXCEPT ![c] = "settled"]
    /\ cbLog' = [cbLog EXCEPT ![c] = OnRejected(EngineError)]
    /\ phase' = [phase EXCEPT ![c] = "Failed"]
    /\ UNCHANGED <<requestId, thrown, aborted, engineCalls, handleAtDispatch,
                   result, read, readCalls, bodyResult, registry,
                   engineCancelled, uuidCount>>

\* The engine's promise settles, either way, after the wait was aborted: the
\* wrapper has settled already and nothing reacts.
EngineSettleAfterAbort(c) ==
    /\ UNCHANGED otherVars
    /\ engine[c] = "pending"
    /\ ~CancellablePromisePending(c)
    /\ engine' = [engine EXCEPT ![c] = "settled"]
    /\ UNCHANGED <<phase, requestId, thrown, cbLog, aborted, engineCalls,
                   handleAtDispatch, result, read, readCalls, bodyResult,
                   registry, engineCancelled, uuidCount>>

\* readCurlResponse resolves with br: fromCurlOutputToResponse resumes.
ReadSettle(c, br, cbThrows) ==
    /\ UNCHANGED otherVars
    /\ read[c] = "pending"
    /\ read' = [read EXCEPT ![c] = "settled"]
    /\ bodyResult' = [bodyResult EXCEPT ![c] = <<br>>]
    /\ IF ReadFails(br)
       THEN /\ cbLog' = [cbLog EXCEPT ![c] = OnRejected(Err("Error", br.error))]
            /\ phase' = [phase EXCEPT ![c] = "Failed"]
       ELSE /\ cbLog' = [cbLog EXCEPT
                           ![c] = OnFulfilled(ResponseOf(result[c][1], br.body), cbThrows)]
            /\ phase' = [phase EXCEPT ![c] = "Completed"]
    /\ UNCHANGED <<requestId, thrown, aborted, engine, engineCalls,
                   handleAtDispatch, result, readCalls, registry,
                   engineCancelled, uuidCount>>

\* The closure cancelRequest of call h: what it cancels and what it aborts.
CancelledIds(h) == {requestId[h]}

AbortedCalls_Shared(h) == {c \in Calls : phase[c] # "Idle"}

AbortedCalls(h) == {h}

\* Somebody looks up the handle registered under id and invokes it.
CancelRequest(id) ==
    /\ UNCHANGED otherVars
    /\ Registered(registry, id)
    /\ LET h == HandleOf(registry, id) IN
       /\ engineCancelled' = engineCancelled \cup CancelledIds(h)
       /\ aborted' = [c \in Calls |-> aborted[c] \/ c \in AbortedCalls(h)]
       /\ cbLog' = [c \in Calls |->
                      IF c \in AbortedCalls(h) /\ CancellablePromisePending(c)
                      THEN OnRejected(CancellablePromiseRejection)
                      ELSE cbLog[c]]
       /\ phase' = [c \in Calls |->
                      IF c \in AbortedCalls(h) /\ CancellablePromisePending(c)
                      THEN "Cancelled"
                      ELSE phase[c]]
    /\ UNCHANGED <<requestId, thrown, engine, engineCalls, handleAtDispatch,
                   result, read, readCalls, bodyResult, registry, uuidCount>>

\* Every request id lowering can produce within the bounds.
AllRequestIds ==
    CallerIds
    \cup {"pre-request-script-adhoc-str-req:" \o Uuid(n) : n \in 1..MaxCalls}
    \cup {"pre-request-script-adhoc-req:" \o Uuid(n) : n \in 1..MaxCalls}

\* cb's behaviour is an input only where cb is invoked.
Thrower(invoked) == IF invoked THEN BOOLEAN ELSE {FALSE}

\* Several calls in flight at once.
Next ==
    \/ \E c \in Calls, req \in RequestLikes,
          sync \in {<<>>} \cup {<<e>> : e \in SyncErrors} :
          \E cbThrows \in Thrower(sync # <<>>) :
              SendRequest(c, req, sync, cbThrows)
    \/ \E c \in Calls, output \in DispatchOutputs :
          \E cbThrows \in Thrower(~LiftThrows(output) /\ ~NeedsBodyRead(output)) :
              EngineResolve(c, output, cbThrows)
    \/ \E c \in Calls : EngineReject(c)
    \/ \E c \in Calls : EngineSettleAfterAbort(c)
    \/ \E c \in Calls, br \in BodyResults :
          \E cbThrows \in Thrower(~ReadFails(br)) : ReadSettle(c, br, cbThrows)
    \/ \E id \in AllRequestIds : CancelRequest(id)

\* One call, with every engine result.
LiftNext ==
    \/ \E req \in RequestLikes, sync \in {<<>>} \cup {<<e>> : e \in SyncErrors} :
          \E cbThrows \in Thrower(sync # <<>>) :
              SendRequest(1, req, sync, cbThrows)
    \/ \E output \in CurlRequestOutputs :
          \E cbThrows \in Thrower(~LiftThrows(output) /\ ~NeedsBodyRead(output)) :
              EngineResolve(1, output, cbThrows)
    \/ EngineReject(1)
    \/ EngineSettleAfterAbort(1)
    \/ \E br \in BodyResults :
          \E cbThrows \in Thrower(~ReadFails(br)) : ReadSettle(1, br, cbThrows)
    \/ \E id \in AllRequestIds : CancelRequest(id)

SpecLift == Init /\ [][LiftNext]_vars

Spec == Init /\ [][Next]_vars

\* ------------------------------------------------ the auth transforms alone
\* Longest {key, value} array of a persisted auth object.
MaxAuthEntries == 2

AuthValues == {"", "alice", "s3cret"}

\* The keys transformAuthentication looks up, per type.
PersistedKeys(type) ==
    CASE type \in {"basic", "digest", "ntlm"} -> {"username", "password"}
      [] type = "oauth1" ->
            {"consumerKey", "consumerSecret", "token", "tokenSecret", "version",
             "nonce", "timestamp", "callback"}
      [] type = "awsv4" -> {"accessKey", "secretKey", "sessionToken"}
      [] type = "asap" -> {"iss", "sub", "aud", "claims", "kid", "privateKey"}
      [] OTHER -> {}

AuthTypes ==
    {"noauth", "basic", "digest", "ntlm", "oauth1", "oauth2", "awsv4", "hawk",
     "asap", "netrc", "bearer", "apikey"}

RECURSIVE SeqsUpTo(_, _)
SeqsUpTo(S, n) ==
    IF n = 0 THEN {<<>>}
    ELSE LET shorter == SeqsUpTo(S, n - 1)
         IN shorter \cup {Append(q, x) : q \in shorter, x \in S}

AuthInputs ==
    UNION {
        {BareAuth(type)} \cup
        {[type |-> type, present |-> TRUE, kvs |-> kvs] :
            kvs \in SeqsUpTo([key : PersistedKeys(type),
                              value : {JStr(v) : v \in AuthValues}],
                             MaxAuthEntries)}
        : type \in AuthTypes}

\* The fields of oldAuth transformAuth reads, per engine type.
OldAuthFields(type) ==
    CASE type = AUTH_BASIC -> {"useISO88591", "disabled", "username", "password"}
      [] type \in {AUTH_DIGEST, AUTH_NTLM} -> {"disabled", "username", "password"}
      [] type = AUTH_AWS_IAM ->
            {"disabled", "accessKeyId", "secretAccessKey", "sessionToken"}
      [] OTHER -> {}

OldAuthValues(field) ==
    IF field \in {"useISO88591", "disabled"}
    THEN {JBool(TRUE), JBool(FALSE)}
    ELSE {JStr(""), JStr("alice")}

EngineTypes ==
    {AUTH_NONE, AUTH_BASIC, AUTH_DIGEST, AUTH_NTLM, AUTH_OAUTH_1, AUTH_OAUTH_2,
     AUTH_AWS_IAM, AUTH_HAWK, AUTH_NETRC, AUTH_ASAP}

\* Type strings no scheme has.
UnknownTypes == {"bearer", "apikey", "bogus"}

\* Every object holding some of the fields, each with one of its values.
OldAuths(type) ==
    UNION {[set -> UNION {OldAuthValues(f) : f \in set}] :
              set \in SUBSET OldAuthFields(type)}

OldAuthInputs ==
    UNION {
        {[type |-> type, oldAuth |-> o] :
            o \in {x \in OldAuths(type) :
                      \A f \in DOMAIN x : x[f] \in OldAuthValues(f)}}
        : type \in EngineTypes \cup UnknownTypes \cup {"noauth", "awsv4"}}

\* {type, ...oldAuth}
WithType(type, oldAuth) ==
    [k \in DOMAIN oldAuth \cup {"type"} |->
        IF k = "type" THEN JStr(type) ELSE oldAuth[k]]

AuthInit ==
    /\ BridgeInit
    /\ SdkIdle
    /\ \/ /\ authIn \in AuthInputs
          /\ oldAuthIn = <<>>
       \/ /\ authIn = BareAuth("noauth")
          /\ oldAuthIn \in {<<x>> : x \in OldAuthInputs}
    /\ authOut = <<>>
    /\ engineAuthOut = <<>>
    /\ preRequestOut = <<>>
    /\ authAgain = <<>>
    /\ RequestIdle

\* transformAuthentication(auth) is applied to the input.
Lower ==
    /\ oldAuthIn = <<>>
    /\ authOut = <<>>
    /\ authOut' = <<TransformAuthentication(authIn)>>
    /\ UNCHANGED <<authIn, oldAuthIn, engineAuthOut, preRequestOut, authAgain,
                   bridgeVars, sdkVars, requestVars>>

\* transformAuth(type, oldAuth) is applied to the input.
Default ==
    /\ oldAuthIn # <<>>
    /\ engineAuthOut = <<>>
    /\ engineAuthOut' =
           <<Returned(TransformAuth(oldAuthIn[1].type, oldAuthIn[1].oldAuth))>>
    /\ UNCHANGED <<authIn, authOut, oldAuthIn, preRequestOut, authAgain,
                   bridgeVars, sdkVars, requestVars>>

\* transformToPreRequestAuth is applied to the engine form the lowering
\* returned, or to the flat object of the input.
Raise ==
    /\ preRequestOut = <<>>
    /\ \/ /\ authOut # <<>>
          /\ ~authOut[1].threw
          /\ preRequestOut' = <<TransformToPreRequestAuth(authOut[1].value)>>
       \/ /\ oldAuthIn # <<>>
          /\ preRequestOut' =
                 <<TransformToPreRequestAuth(
                       WithType(oldAuthIn[1].type, oldAuthIn[1].oldAuth))>>
    /\ UNCHANGED <<authIn, authOut, oldAuthIn, engineAuthOut, authAgain,
                   bridgeVars, sdkVars, requestVars>>

\* transformAuthentication is applied to the pre-request form.
LowerAgain ==
    /\ preRequestOut # <<>>
    /\ ~preRequestOut[1].threw
    /\ authAgain = <<>>
    /\ authAgain' = <<TransformAuthentication(preRequestOut[1].value)>>
    /\ UNCHANGED <<authIn, authOut, oldAuthIn, engineAuthOut, preRequestOut,
                   bridgeVars, sdkVars, requestVars>>

AuthNext == Lower \/ Default \/ Raise \/ LowerAgain

SpecAuth == AuthInit /\ [][AuthNext]_vars

\* ------------------------------------------------------------------ claims
\* A call is over: sendRequest has returned or thrown and nothing is pending
\* on the chain.
Over(c) == phase[c] \in {"LoweringFailed", "Completed", "Cancelled", "Failed"}

\* No other call carries the request id of call c.
UniqueId(c) == \A d \in Calls \ {c} : requestId[d] # requestId[c]

\* The response call c delivered, if any.
Delivered(c) == {cbLog[c][i].resp[1] : i \in {j \in 1..Len(cbLog[c]) : cbLog[c][j].resp # <<>>}}

\* C1: on every path of sendRequest, lowering failure and a throwing cb
\* included, cb is invoked exactly once, with (undefined, response) or
\* (error, undefined) and never both.
C1_CallbackExactlyOnce ==
    \A c \in Calls :
        /\ Over(c) => Len(cbLog[c]) = 1
        /\ Len(cbLog[c]) <= 1
        /\ \A i \in 1..Len(cbLog[c]) :
               (cbLog[c][i].err = <<>>) # (cbLog[c][i].resp = <<>>)

\* C2: a call whose cancel handle is invoked before the engine call settles
\* gets the message "Request was cancelled: <reason>" and no Response.
CancelledMessages ==
    {Str("Request was cancelled: " \o m) : m \in {AbortReason, "Aborted"}}

C2_CancelledMessage ==
    \A c \in Calls :
        (phase[c] = "Cancelled" /\ engine[c] # "threw") =>
            /\ Len(cbLog[c]) = 1
            /\ cbLog[c][1].resp = <<>>
            /\ cbLog[c][1].err # <<>>
            /\ cbLog[c][1].err[1] \in CancelledMessages

\* C3: sendRequest throws nothing of the dispatch path to its caller: a
\* lowering failure (bad input, unknown auth type) reaches cb's error slot.
C3_NeverThrowsToCaller ==
    \A c \in Calls :
        /\ thrown[c] # <<>> => thrown[c] = <<CallbackError>>
        /\ phase[c] = "LoweringFailed" =>
               Len(cbLog[c]) = 1 /\ cbLog[c][1].err # <<>>

\* C4: once the callback of a call has fired, the registry holds no entry of
\* that call.
C4_EntryRemovedOnEveryExit ==
    \A c \in Calls : cbLog[c] # <<>> => <<requestId[c], c>> \notin registry

\* C5: the handle is registered before curlRequest is invoked, and while the
\* engine call is in flight the registry holds a handle for its request id.
C5_HandleWhileInFlight ==
    \A c \in Calls :
        /\ engineCalls[c] > 0 => handleAtDispatch[c]
        /\ engine[c] = "pending" => Registered(registry, requestId[c])

\* C5, amended: the same, for a call whose request id no other call carries;
\* the handle found is then the call's own.
C5_HandleWhileInFlightUniqueId ==
    \A c \in Calls :
        /\ engineCalls[c] > 0 => handleAtDispatch[c]
        /\ (engine[c] = "pending" /\ UniqueId(c)) =>
               <<requestId[c], c>> \in registry

C5_Witness ==
    \E c \in Calls :
        engine[c] = "pending" /\ UniqueId(c) /\ handleAtDispatch[c]
        /\ \E d \in Calls \ {c} : phase[d] = "Failed"

\* C6: the callback fires only after the engine call has settled and, when
\* the result carries a responseBodyPath, after the body read has settled,
\* also when the call is cancelled while the engine call is pending.
EngineSettled(c) == engine[c] \in {"settled", "threw"}

ReadSettledIfAny(c) ==
    (result[c] # <<>> /\ result[c][1].responseBodyPath # Undefined
        /\ result[c][1].headerResults # <<>>) => read[c] = "settled"

C6_CallbackAfterSettle ==
    \A c \in Calls :
        cbLog[c] # <<>> => EngineSettled(c) /\ ReadSettledIfAny(c)

\* C6, amended: the same, except for a call cancelled while its engine call
\* is pending, whose callback fires at the abort with the abort error.
C6_CallbackAfterSettleUnlessAborted ==
    \A c \in Calls :
        cbLog[c] # <<>> =>
            \/ EngineSettled(c) /\ ReadSettledIfAny(c)
            \/ /\ aborted[c]
               /\ phase[c] = "Cancelled"
               /\ cbLog[c] = <<CbCall(<<CancellablePromiseRejection>>, <<>>)>>

C6_Witness ==
    \E c \in Calls :
        /\ phase[c] = "Completed"
        /\ read[c] = "settled"
        /\ Delivered(c) # {}
        /\ \E d \in Calls : phase[d] = "Cancelled" /\ engine[d] = "pending"

\* C7: a delivered Response has the code and the headers of the last
\* headerResults entry.
C7_LastHopIsAuthoritative ==
    \A c \in Calls :
        \A r \in Delivered(c) :
            LET hr == result[c][1].headerResults
                last == hr[Len(hr)]
            IN /\ Len(hr) >= 1
               /\ r.code = last.code
               /\ Len(r.headers) = Len(last.headers)
               /\ \A i \in 1..Len(last.headers) :
                      /\ r.headers[i].key = last.headers[i].name
                      /\ r.headers[i].value = last.headers[i].value

C7_Witness ==
    \E c \in Calls :
        \E r \in Delivered(c) :
            LET hr == result[c][1].headerResults
            IN Len(hr) >= 2 /\ hr[1].code # r.code /\ r.code = hr[Len(hr)].code

\* C8: without a responseBodyPath no body read is issued and the Response is
\* completed at once; with one, exactly one read is issued and settles
\* before the Response is completed, its body is the Response's body, and a
\* read that reports an error fails the call with that error and no Response.
C8_BodyRead ==
    \A c \in Calls :
        result[c] # <<>> =>
            LET path == result[c][1].responseBodyPath IN
            /\ path = Undefined =>
                   /\ readCalls[c] = 0
                   /\ phase[c] \in {"Completed", "Failed"}
                   /\ \A r \in Delivered(c) : r.body = ""
            /\ path # Undefined =>
                   /\ readCalls[c] <= 1
                   /\ \A r \in Delivered(c) :
                          /\ readCalls[c] = 1
                          /\ read[c] = "settled"
                          /\ bodyResult[c][1].error = ""
                          /\ r.body = bodyResult[c][1].body
                   /\ (bodyResult[c] # <<>> /\ bodyResult[c][1].error # "") =>
                          cbLog[c] = <<CbCall(<<Err("Error", bodyResult[c][1].error)>>, <<>>)>>

C8_Witness ==
    /\ \E c \in Calls :
           /\ result[c] # <<>>
           /\ result[c][1].responseBodyPath # Undefined
           /\ \E r \in Delivered(c) : r.body = "stored body"
    /\ \E c \in Calls :
           /\ bodyResult[c] # <<>>
           /\ bodyResult[c][1].error # ""
           /\ phase[c] = "Failed"

\* C9: two in-flight calls with request ids of their own each have their own
\* registry entry, and invoking the handle of one cancels the engine request
\* of that id alone and aborts that call's wait alone: nothing of a call with
\* another request id changes.
C9_OwnEntries ==
    /\ \A e \in registry : requestId[e[2]] = e[1]
    /\ \A c \in Calls :
           (engine[c] = "pending" /\ UniqueId(c)) => <<requestId[c], c>> \in registry

C9_CancelTouchesOneCall ==
    \A c \in Calls :
        (aborted'[c] /\ ~aborted[c]) =>
            /\ engineCancelled' = engineCancelled \cup {requestId[c]}
            /\ \A d \in Calls \ {c} :
                   /\ aborted'[d] = aborted[d]
                   /\ cbLog'[d] = cbLog[d]
                   /\ phase'[d] = phase[d]
                   /\ engine'[d] = engine[d]

C9_CancelIsolated == [](C9_OwnEntries) /\ [][C9_CancelTouchesOneCall]_vars

C9_Witness ==
    \E c, d \in Calls :
        /\ requestId[c] # requestId[d]
        /\ phase[c] = "Cancelled" /\ aborted[c] /\ requestId[c] \in engineCancelled
        /\ ~aborted[d] /\ requestId[d] \notin engineCancelled
        /\ phase[d] = "Completed"

\* The engine field transformAuthentication fills from a persisted key.
EngineField(key) ==
    CASE key = "token" -> "tokenKey"
      [] key = "accessKey" -> "accessKeyId"
      [] key = "secretKey" -> "secretAccessKey"
      [] key = "iss" -> "issuer"
      [] key = "sub" -> "subject"
      [] key = "aud" -> "audience"
      [] key = "claims" -> "additionalClaims"
      [] key = "kid" -> "keyId"
      [] OTHER -> key

\* The value the input sets for key: that of its first entry with the key.
SetsKey(authObj, key) ==
    authObj.present /\ \E i \in 1..Len(authObj.kvs) : authObj.kvs[i].key = key

ValueSet(authObj, key) ==
    authObj.kvs[CHOOSE i \in 1..Len(authObj.kvs) :
                    /\ authObj.kvs[i].key = key
                    /\ \A j \in 1..(i - 1) : authObj.kvs[j].key # key].value

\* C10: lowering an auth object to the engine form reproduces, as the same
\* value, every field the input explicitly set.
C10_SetFieldsReproduced ==
    (authOut # <<>> /\ ~authOut[1].threw) =>
        \A key \in PersistedKeys(authIn.type) :
            SetsKey(authIn, key) =>
                Get(authOut[1].value, EngineField(key)) = ValueSet(authIn, key)


\* --------------------------------------------------------------- C11
\* The persisted key transformAuthentication reads an engine field from.
PersistedKeyOf(type, field) ==
    CASE field = "tokenKey" -> "token"
      [] field = "privateKey" /\ type = AUTH_OAUTH_1 -> "consumerSecret"
      [] field = "accessKeyId" -> "accessKey"
      [] field = "secretAccessKey" -> "secretKey"
      [] field = "issuer" -> "iss"
      [] field = "subject" -> "sub"
      [] field = "audience" -> "aud"
      [] field = "additionalClaims" -> "claims"
      [] field = "keyId" -> "kid"
      [] OTHER -> field

\* The defaults: booleans false, strings '', and the three named values.
DocumentedDefault(field) ==
    CASE field \in {"useISO88591", "disabled"} -> JBool(FALSE)
      [] field = "signatureMethod" -> JStr("HMAC-SHA1")
      [] field = "version" -> JStr("1.0")
      [] field = "algorithm" -> JStr("sha256")
      [] OTHER -> JStr("")

\* The fields whose default is named, per engine type.
NamedFields(type) ==
    CASE type \in {AUTH_BASIC, AUTH_DIGEST, AUTH_NTLM} ->
            {"disabled", "username", "password"}
      [] type = AUTH_AWS_IAM ->
            {"disabled", "accessKeyId", "secretAccessKey", "sessionToken"}
      [] type = AUTH_OAUTH_1 -> {"disabled", "signatureMethod", "version"}
      [] type = AUTH_HAWK -> {"algorithm"}
      [] OTHER -> {}

\* The fields of an engine form that have a default: all it holds and all
\* that are named for its type, but the type itself and oauth2's grantType,
\* which is none of a boolean, an empty string or a named default.
DefaultedFields(type, engineForm) ==
    (DOMAIN engineForm \cup NamedFields(type)) \ {"type", "grantType"}

SupportedEngineTypes == EngineTypes \ {AUTH_NONE, AUTH_NETRC}

CarriesType(outcome, type) ==
    /\ outcome.threw
    /\ outcome.error \in {"unknown auth type: " \o type,
                          "unknown auth type or unsupported auth type: " \o type}

\* C12: at each of transformAuth, transformAuthentication and
\* transformToPreRequestAuth, an input whose type is no recognized scheme
\* fails with an error carrying that type string; none returns a value.
C12_UnknownTypeFails ==
    /\ (oldAuthIn # <<>> /\ oldAuthIn[1].type \in UnknownTypes) =>
           /\ engineAuthOut # <<>> => CarriesType(engineAuthOut[1], oldAuthIn[1].type)
           /\ preRequestOut # <<>> => CarriesType(preRequestOut[1], oldAuthIn[1].type)
    /\ (oldAuthIn = <<>> /\ authIn.type \in UnknownTypes /\ authOut # <<>>) =>
           CarriesType(authOut[1], authIn.type)

\* --------------------------------------------------------------- C13
\* The schemes transformAuthentication lowers, netrc apart.
RoundTripTypes ==
    {"noauth", "basic", "digest", "ntlm", "oauth1", "oauth2", "awsv4", "hawk",
     "asap"}

\* C13: for every supported scheme but netrc, transformToPreRequestAuth
\* accepts the engine form transformAuthentication produced, the persisted
\* form it returns is of the same scheme, and lowering that form again gives
\* an engine form equal to the first.
C13_RoundTripLossless ==
    (oldAuthIn = <<>> /\ authIn.type \in RoundTripTypes /\ authOut # <<>>) =>
        /\ ~authOut[1].threw
        /\ preRequestOut # <<>> =>
               /\ ~preRequestOut[1].threw
               /\ preRequestOut[1].value.type = authIn.type
        /\ authAgain # <<>> =>
               /\ ~authAgain[1].threw
               /\ authAgain[1].value = authOut[1].value

\* ================================================================ Request
\* The script-facing Request of req-resp.ts. Url, Header, QueryParam,
\* RequestAuth, ProxyConfig and Certificate are value holders: what is
\* constructed from options gives the same options back.

\* Longest query-parameter list of a Url.
MaxParams == 2

QueryParams == [key : {"q", "page"}, value : {"1"}]

UrlCells ==
    [protocol : {"http://", "https://"}, host : {"example.com"},
     query : SeqsUpTo(QueryParams, MaxParams)]

\* k=v&k=v
RECURSIVE QueryText(_)
QueryText(query) ==
    IF query = <<>> THEN ""
    ELSE Head(query).key \o "=" \o Head(query).value
         \o (IF Tail(query) = <<>> THEN "" ELSE "&" \o QueryText(Tail(query)))

\* url.toString()
UrlToString(url) ==
    url.protocol \o url.host
    \o (IF url.query = <<>> THEN "" ELSE "?" \o QueryText(url.query))

\* text.indexOf('://') >= 0, for the texts a Url renders to or that lack
\* the scheme.
HasScheme(text) == \E u \in UrlCells : UrlToString(u) = text

\* new Url(text): the Url that renders to the text, without a protocol
\* when the text has none.
NewUrl(text) ==
    CHOOSE u \in UrlCells \cup [protocol : {""}, host : {"example.com"},
                                query : SeqsUpTo(QueryParams, MaxParams)] :
        UrlToString(u) = text

\* new Header(options) and header.toJSON()
NewHeader(o) == [key |-> o.key, value |-> o.value, disabled |-> o.disabled]
HeaderToJSON(h) == [key |-> h.key, value |-> h.value, disabled |-> h.disabled]

\* list.map(f)
RECURSIVE Map(_, _)
Map(F(_), list) ==
    IF list = <<>> THEN <<>> ELSE <<F(Head(list))>> \o Map(F, Tail(list))

\* list.filter(keep)
RECURSIVE Filter(_, _)
Filter(Keep(_), list) ==
    IF list = <<>> THEN <<>>
    ELSE (IF Keep(Head(list)) THEN <<Head(list)>> ELSE <<>>)
         \o Filter(Keep, Tail(list))

\* JSON.stringify of a string
JsonStringify(text) == "\"" \o text \o "\""

\* ------------------------------------------------------------ RequestBody
UrlencodedTexts == {"", "a=1", "a=1&b=2"}

FormPairs == [key : {"a", "b"}, value : {"1", "2"}]

\* QueryParam.parse(text): the key/value entries the text holds.
QueryParamParse(text) ==
    CHOOSE pairs \in SeqsUpTo(FormPairs, 2) : QueryText(pairs) = text

NoUrlencoded == [kind |-> "undefined", text |-> "", list |-> <<>>]
UrlencodedString(text) == [kind |-> "string", text |-> text, list |-> <<>>]
UrlencodedList(list) == [kind |-> "list", text |-> "", list |-> list]

ListEntryValue_Stringified(value) == JsonStringify(value)

\* value: entry.value, for an entry of a structured list
ListEntryValue(value) == value

\* The urlencoded list of a new RequestBody.
UrlencodedOf(urlencoded) ==
    IF urlencoded.kind = "string"
    THEN IF urlencoded.text # ""
         THEN <<Map(LAMBDA e : [key |-> e.key, value |-> JsonStringify(e.value)],
                    QueryParamParse(urlencoded.text))>>
         ELSE <<>>
    ELSE IF urlencoded.kind = "list"
         THEN <<Map(LAMBDA e : [key |-> e.key, value |-> ListEntryValue(e.value)],
                    urlencoded.list)>>
         ELSE <<>>

\* new RequestBody(opts)
NewRequestBody(opts) ==
    [mode |-> opts.mode,
     file |-> opts.file,
     formdata |-> IF opts.formdata # <<>>
                  THEN <<Map(LAMBDA f : [key |-> f.key, value |-> f.value],
                             opts.formdata[1])>>
                  ELSE <<>>,
     graphql |-> opts.graphql,
     raw |-> opts.raw,
     urlencoded |-> UrlencodedOf(opts.urlencoded)]

\* The body options clone and toJSON write: every field read through ?. from
\* a body that may be undefined.
BodyOptionsOf(body) ==
    IF body = <<>>
    THEN [mode |-> Undefined, file |-> Undefined, formdata |-> <<>>,
          graphql |-> Undefined, raw |-> Undefined, urlencoded |-> NoUrlencoded]
    ELSE [mode |-> body[1].mode,
          file |-> body[1].file,
          formdata |-> IF body[1].formdata = <<>> THEN <<>>
                       ELSE <<Map(LAMBDA f : [key |-> f.key, value |-> f.value],
                                  body[1].formdata[1])>>,
          graphql |-> body[1].graphql,
          raw |-> body[1].raw,
          urlencoded |-> IF body[1].urlencoded = <<>> THEN NoUrlencoded
                         ELSE UrlencodedList(
                                  Map(LAMBDA q : [key |-> q.key, value |-> q.value],
                                      body[1].urlencoded[1]))]

\* ---------------------------------------------------------------- Request
\* The certificate options clone and toJSON write.
CertificateOptionsOf(certificate) ==
    IF certificate = <<>>
    THEN [name |-> Undefined, matches |-> <<>>, key |-> Undefined,
          cert |-> Undefined, passphrase |-> Undefined, pfx |-> Undefined]
    ELSE [name |-> certificate[1].name,
          matches |-> IF certificate[1].matches = <<>> THEN <<>>
                      ELSE <<Map(LAMBDA m : m, certificate[1].matches[1])>>,
          key |-> certificate[1].key,
          cert |-> certificate[1].cert,
          passphrase |-> certificate[1].passphrase,
          pfx |-> certificate[1].pfx]

\* The headers of a new Request: from an array of header options, from an
\* object's entries, or none.
HeadersOf(header) ==
    IF header.kind = "array" THEN Map(NewHeader, header.list)
    ELSE IF header.kind = "object"
    THEN Map(LAMBDA e : NewHeader([key |-> e.key, value |-> e.value,
                                   disabled |-> FALSE]),
             header.list)
    ELSE <<>>

\* new Request(options), with the Urls there are: a url given as a string
\* makes a new Url, of 'https://' + url when the string has no '://'; a Url
\* given is kept as it is. The result is the Request and the Urls there are
\* then.
NewRequest(options, heap) ==
    LET text == options.url.text
        made == IF HasScheme(text) THEN NewUrl(text) ELSE NewUrl("https://" \o text)
    IN [req |->
            [url |-> IF options.url.isString THEN Len(heap) + 1 ELSE options.url.ref,
             method |-> IF options.method # "" THEN options.method ELSE "GET",
             headers |-> HeadersOf(options.header),
             body |-> IF options.body # <<>>
                      THEN <<NewRequestBody(options.body[1])>> ELSE <<>>,
             auth |-> IF options.auth # <<>> THEN options.auth[1]
                      ELSE BareAuth("noauth"),
             proxy |-> IF options.proxy # <<>> THEN <<options.proxy[1]>> ELSE <<>>,
             certificate |-> IF options.certificate # <<>>
                             THEN <<options.certificate[1]>> ELSE <<>>],
        heap |-> IF options.url.isString THEN Append(heap, made) ELSE heap]

UrlString(text) == [isString |-> TRUE, text |-> text, ref |-> 0]
UrlObject(ref) == [isString |-> FALSE, text |-> "", ref |-> ref]

\* What clone and toJSON write besides the url.
OptionsOf(req, url) ==
    [url |-> url,
     method |-> req.method,
     header |-> [kind |-> "array", list |-> Map(HeaderToJSON, req.headers)],
     body |-> <<BodyOptionsOf(req.body)>>,
     auth |-> <<req.auth>>,
     proxy |-> IF req.proxy # <<>> THEN <<req.proxy[1]>> ELSE <<>>,
     certificate |-> <<CertificateOptionsOf(req.certificate)>>]

\* request.toJSON()
ToJSON(req, heap) == OptionsOf(req, UrlString(UrlToString(heap[req.url])))

\* url: this.url
CloneUrl(req, heap) == UrlObject(req.url)

\* request.clone()
Clone(req, heap) == NewRequest(OptionsOf(req, CloneUrl(req, heap)), heap)

\* ------------------------------------------------------------ header calls
\* toLocaleLowerCase, of the texts in use.
LowerCase(text) ==
    CASE text = "X" -> "x"
      [] text = "Y" -> "y"
      [] text \in {"Set-Cookie", "SET-COOKIE"} -> "set-cookie"
      [] text = "Content-Type" -> "content-type"
      [] text \in {"User-Agent", "USER-AGENT"} -> "user-agent"
      [] text = "Accept" -> "accept"
      [] OTHER -> text

\* getHeaders: does the callback go past its early return for the header?
Merged(header, options) ==
    LET enabled == IF options.enabled THEN ~header.disabled ELSE TRUE
        sanitized == IF options.sanitizeKeys THEN header.value # "" ELSE TRUE
        hasName == header.key # ""
    IN ~(~enabled \/ ~sanitized \/ ~hasName)

MergedKey_AsStored(header, options) == header.key

\* The key the callback assigns to the header and files its value under.
MergedKey(header, options) ==
    IF options.ignoreCase THEN LowerCase(header.key) ELSE header.key

\* headerMap.set on a Map kept as the list of its entries in insertion
\* order: a key there already keeps its place.
MapSet(headerMap, key, value) ==
    IF \E i \in 1..Len(headerMap) : headerMap[i].key = key
    THEN [i \in 1..Len(headerMap) |->
             IF headerMap[i].key = key
             THEN [key |-> key, values |-> Append(headerMap[i].values, value)]
             ELSE headerMap[i]]
    ELSE Append(headerMap, [key |-> key, values |-> <<value>>])

RECURSIVE HeaderMap(_, _, _)
HeaderMap(headers, options, headerMap) ==
    IF headers = <<>> THEN headerMap
    ELSE HeaderMap(Tail(headers), options,
             IF Merged(Head(headers), options)
             THEN MapSet(headerMap, MergedKey(Head(headers), options),
                         Head(headers).value)
             ELSE headerMap)

\* request.getHeaders(options): what it returns, and the headers as the
\* callback leaves them.
GetHeaders(headers, options) ==
    [returned |-> HeaderMap(headers, options, <<>>),
     headers |-> Map(LAMBDA h : IF Merged(h, options)
                               THEN [h EXCEPT !.key = MergedKey(h, options)]
                               ELSE h,
                     headers)]

RemoveString(text) == [kind |-> "string", key |-> text, hasName |-> FALSE]
RemoveObject(key, hasName) == [kind |-> "object", key |-> key, hasName |-> hasName]

\* removeHeader: does the filter callback throw for the header?
RemoveThrows(header, toRemove) ==
    header.key # "" /\ toRemove.kind = "object" /\ ~toRemove.hasName

\* if (!header.key) return false
KeepsKeyless(header) == FALSE

\* removeHeader: what the filter callback returns for the header.
Kept(header, toRemove, ignoreCase) ==
    IF header.key = "" THEN KeepsKeyless(header)
    ELSE IF toRemove.kind = "object" /\ toRemove.key = "" THEN FALSE
    ELSE IF ignoreCase
         THEN LowerCase(header.key) # LowerCase(toRemove.key)
         ELSE header.key # toRemove.key

\* request.removeHeader(toRemove, {ignoreCase}): the headers after, or the
\* error the callback threw, with the headers as they were.
RemoveHeader(headers, toRemove, ignoreCase) ==
    IF \E i \in 1..Len(headers) : RemoveThrows(headers[i], toRemove)
    THEN [threw |-> TRUE,
          error |-> "type of the \"toRemove\" must be: string | Header",
          headers |-> headers]
    ELSE [threw |-> FALSE, error |-> "",
          headers |-> Filter(LAMBDA h : Kept(h, toRemove, ignoreCase), headers)]

UpsertPosition_First(headers, header) == <<header>> \o headers

\* this.headers.append(new Header(header))
UpsertPosition(headers, header) == Append(headers, header)

\* request.upsertHeader(header)
UpsertHeader(headers, header) ==
    UpsertPosition(Filter(LAMBDA existingHeader : existingHeader.key # header.key,
                          headers),
                   NewHeader(header))

\* request.addHeader(header), for an object with key and value
AddHeader(headers, header) == Append(headers, NewHeader(header))

\* url.addQueryParams(params) and url.removeQueryParams(key): the Url's own
\* parameter list grows and shrinks.
AddQueryParams(url, param) == [url EXCEPT !.query = Append(@, param)]
RemoveQueryParams(url, key) ==
    [url EXCEPT !.query = Filter(LAMBDA q : q.key # key, @)]

\* auth.use(type, options)
AuthUse(auth, type) == BareAuth(type)

\* ------------------------------------------------------ calls on a Request
\* Most mutating calls made on r and c after the clone.
MaxMutations == 1
\* Longest header list a Request holds.
MaxHeaders == 3

\* The state after new Request(opts) as r.
Constructed(opts) ==
    LET made == NewRequest(opts, <<>>) IN
    /\ requestOptions = <<opts>>
    /\ urls = made.heap
    /\ reqs = [name \in RequestNames |-> IF name = "r" THEN <<made.req>> ELSE <<>>]
    /\ call = <<>>
    /\ mutations = 0
    /\ requestBody = <<>>
    /\ isEmptyOut = <<>>
    /\ toStringOut = <<>>

\* A call can be made on the Request: before the clone a single one, after
\* it MaxMutations of them.
CanCall(on) ==
    /\ reqs[on] # <<>>
    /\ IF reqs["c"] = <<>> THEN call = <<>> ELSE mutations < MaxMutations

Called(op, on, arg, returned, threw) ==
    /\ call' = <<[op |-> op, on |-> on, arg |-> arg, returned |-> returned,
                  threw |-> threw]>>
    /\ mutations' = IF reqs["c"] = <<>> THEN mutations ELSE mutations + 1
    /\ UNCHANGED <<requestOptions, requestBody, isEmptyOut, toStringOut, bridgeVars, sdkVars,
                   authVars>>

WithHeaders(on, headers) ==
    reqs' = [reqs EXCEPT ![on] = <<[@[1] EXCEPT !.headers = headers]>>]

GetHeadersCall(on, opts) ==
    /\ CanCall(on)
    /\ LET out == GetHeaders(reqs[on][1].headers, opts) IN
       /\ WithHeaders(on, out.headers)
       /\ Called("getHeaders", on, opts, out.returned, FALSE)
    /\ UNCHANGED urls

RemoveHeaderCall(on, toRemove, ignoreCase) ==
    /\ CanCall(on)
    /\ LET out == RemoveHeader(reqs[on][1].headers, toRemove, ignoreCase) IN
       /\ WithHeaders(on, out.headers)
       /\ Called("removeHeader", on,
                 [toRemove |-> toRemove, ignoreCase |-> ignoreCase], <<>>, out.threw)
    /\ UNCHANGED urls

UpsertHeaderCall(on, header) ==
    /\ CanCall(on)
    /\ Len(UpsertHeader(reqs[on][1].headers, header)) <= MaxHeaders
    /\ WithHeaders(on, UpsertHeader(reqs[on][1].headers, header))
    /\ Called("upsertHeader", on, header, <<>>, FALSE)
    /\ UNCHANGED urls

AddHeaderCall(on, header) ==
    /\ CanCall(on)
    /\ Len(reqs[on][1].headers) < MaxHeaders
    /\ WithHeaders(on, AddHeader(reqs[on][1].headers, header))
    /\ Called("addHeader", on, header, <<>>, FALSE)
    /\ UNCHANGED urls

AddQueryParamsCall(on, param) ==
    /\ CanCall(on)
    /\ Len(urls[reqs[on][1].url].query) < MaxParams
    /\ urls' = [urls EXCEPT ![reqs[on][1].url] = AddQueryParams(@, param)]
    /\ Called("addQueryParams", on, param, <<>>, FALSE)
    /\ UNCHANGED reqs

RemoveQueryParamsCall(on, key) ==
    /\ CanCall(on)
    /\ urls' = [urls EXCEPT ![reqs[on][1].url] = RemoveQueryParams(@, key)]
    /\ Called("removeQueryParams", on, [key |-> key], <<>>, FALSE)
    /\ UNCHANGED reqs

AuthorizeUsingCall(on, type) ==
    /\ CanCall(on)
    /\ reqs' = [reqs EXCEPT ![on] = <<[@[1] EXCEPT !.auth = AuthUse(@, type)]>>]
    /\ Called("authorizeUsing", on, [type |-> type], <<>>, FALSE)
    /\ UNCHANGED urls

\* c = r.clone()
CloneCall ==
    /\ reqs["r"] # <<>>
    /\ reqs["c"] = <<>>
    /\ LET made == Clone(reqs["r"][1], urls) IN
       /\ reqs' = [reqs EXCEPT !["c"] = <<made.req>>]
       /\ urls' = made.heap
    /\ call' = <<[op |-> "clone", on |-> "r", arg |-> [none |-> TRUE],
                  returned |-> <<>>, threw |-> FALSE]>>
    /\ UNCHANGED <<requestOptions, mutations, requestBody, isEmptyOut, toStringOut,
                   bridgeVars, sdkVars, authVars>>

\* n = new Request(x.toJSON())
FromJSONCall(on) ==
    /\ reqs[on] # <<>>
    /\ reqs["n"] = <<>>
    /\ LET made == NewRequest(ToJSON(reqs[on][1], urls), urls) IN
       /\ reqs' = [reqs EXCEPT !["n"] = <<made.req>>]
       /\ urls' = made.heap
    /\ call' = <<[op |-> "fromJSON", on |-> on, arg |-> [none |-> TRUE],
                  returned |-> <<>>, threw |-> FALSE]>>
    /\ UNCHANGED <<requestOptions, mutations, requestBody, isEmptyOut, toStringOut,
                   bridgeVars, sdkVars, authVars>>

\* ----------------------------------------------- the header calls alone
DefaultUrl == UrlString("example.com")

HeaderPool ==
    {[key |-> "X", value |-> "1", disabled |-> FALSE],
     [key |-> "x", value |-> "2", disabled |-> FALSE],
     [key |-> "Y", value |-> "", disabled |-> FALSE],
     [key |-> "", value |-> "1", disabled |-> FALSE],
     [key |-> "Y", value |-> "3", disabled |-> TRUE]}

HeadersOnly(list) ==
    [url |-> DefaultUrl, method |-> "",
     header |-> [kind |-> "array", list |-> list],
     body |-> <<>>, auth |-> <<>>, proxy |-> <<>>, certificate |-> <<>>]

HeadersInit ==
    /\ BridgeInit
    /\ SdkIdle
    /\ AuthIdle
    /\ \E list \in SeqsUpTo(HeaderPool, MaxHeaders) : Constructed(HeadersOnly(list))

GetHeadersOptions ==
    [ignoreCase : BOOLEAN, enabled : BOOLEAN, sanitizeKeys : BOOLEAN]

ToRemoves ==
    {RemoveString(k) : k \in {"X", "x", "y"}}
    \cup {RemoveObject("X", hasName) : hasName \in BOOLEAN}
    \cup {RemoveObject("", TRUE)}

UpsertedHeaders == [key : {"X", "Y"}, value : {"9"}, disabled : {FALSE}]

HeadersNext ==
    \/ \E opts \in GetHeadersOptions : GetHeadersCall("r", opts)
    \/ \E toRemove \in ToRemoves, ignoreCase \in BOOLEAN :
          RemoveHeaderCall("r", toRemove, ignoreCase)
    \/ \E header \in UpsertedHeaders : UpsertHeaderCall("r", header)
    \/ \E header \in UpsertedHeaders : AddHeaderCall("r", header)

SpecHeaders == HeadersInit /\ [][HeadersNext]_vars

\* ------------------------------------------------------- C17, C18, C19
\* The headers r was constructed with, and those it holds.
HeadersBefore == NewRequest(requestOptions[1], <<>>).req.headers
HeadersAfter == reqs["r"][1].headers

\* The single call made on r was op.
OnlyCall(op) == call # <<>> /\ call[1].op = op /\ call[1].on = "r" /\ reqs["c"] = <<>>

ValuesOf(headers) == [i \in 1..Len(headers) |-> headers[i].value]

\* C17: getHeaders(options) returns, for each key (lower-cased when
\* ignoreCase), the values of all included headers with that key in
\* header-list order; a header is excluded exactly when its key is empty, or
\* enabled is requested and it is disabled, or sanitizeKeys is requested and
\* its value is empty.
C17_GetHeadersMerges ==
    OnlyCall("getHeaders") =>
        LET o == call[1].arg
            returned == call[1].returned
            Excluded(h) ==
                \/ h.key = ""
                \/ o.enabled /\ h.disabled
                \/ o.sanitizeKeys /\ h.value = ""
            KeyOf(h) == IF o.ignoreCase THEN LowerCase(h.key) ELSE h.key
            included == SelectSeq(HeadersBefore, LAMBDA h : ~Excluded(h))
        IN /\ \A i, j \in 1..Len(returned) :
                  returned[i].key = returned[j].key => i = j
           /\ {returned[i].key : i \in 1..Len(returned)}
                  = {KeyOf(included[i]) : i \in 1..Len(included)}
           /\ \A i \in 1..Len(returned) :
                  returned[i].values =
                      ValuesOf(SelectSeq(included,
                                         LAMBDA h : KeyOf(h) = returned[i].key))

C17_Witness ==
    /\ OnlyCall("getHeaders")
    /\ HeadersBefore = <<[key |-> "X", value |-> "1", disabled |-> FALSE],
                         [key |-> "x", value |-> "2", disabled |-> FALSE],
                         [key |-> "Y", value |-> "", disabled |-> FALSE]>>
    /\ call[1].arg = [ignoreCase |-> TRUE, enabled |-> TRUE, sanitizeKeys |-> TRUE]
    /\ call[1].returned = <<[key |-> "x", values |-> <<"1", "2">>]>>

\* C18: after upsertHeader({key: k, value: v}) exactly one header has key k
\* (case-sensitive), it carries v and is the last, and the headers with
\* another key are there with their values in their original order.
C18_UpsertReplacesAndAppends ==
    OnlyCall("upsertHeader") =>
        LET k == call[1].arg.key
            v == call[1].arg.value
            after == HeadersAfter
        IN /\ Cardinality({i \in 1..Len(after) : after[i].key = k}) = 1
           /\ after[Len(after)].key = k
           /\ after[Len(after)].value = v
           /\ SelectSeq(after, LAMBDA h : h.key # k)
                  = SelectSeq(HeadersBefore, LAMBDA h : h.key # k)

C18_Witness ==
    /\ OnlyCall("upsertHeader")
    /\ Len(HeadersBefore) = 2
    /\ HeadersBefore[1].key = call[1].arg.key
    /\ HeadersBefore[2].key # call[1].arg.key
    /\ HeadersAfter = <<HeadersBefore[2],
                        [key |-> call[1].arg.key, value |-> "9", disabled |-> FALSE]>>

\* C19: removeHeader(toRemove, {ignoreCase}), with toRemove a string or a
\* header-like object carrying a key, removes exactly the headers whose key
\* equals the target key (case-insensitively when ignoreCase): none of them
\* remains, and every other header, one with an empty key too, remains in
\* its original order.
C19_RemovesExactlyMatching ==
    (OnlyCall("removeHeader") /\ call[1].arg.toRemove.key # "") =>
        LET target == call[1].arg.toRemove.key
            Matches(h) ==
                IF call[1].arg.ignoreCase
                THEN LowerCase(h.key) = LowerCase(target)
                ELSE h.key = target
        IN /\ ~call[1].threw
           /\ HeadersAfter = SelectSeq(HeadersBefore, LAMBDA h : ~Matches(h))

\* --------------------------------------------- construction, clone, toJSON
NoBody ==
    [mode |-> Undefined, file |-> Undefined, formdata |-> <<>>,
     graphql |-> Undefined, raw |-> Undefined, urlencoded |-> NoUrlencoded]

BodyOptions ==
    {[NoBody EXCEPT !.mode = "raw", !.raw = "hello"],
     [NoBody EXCEPT !.mode = "urlencoded", !.urlencoded = UrlencodedString("a=1&b=2")],
     [NoBody EXCEPT !.mode = "urlencoded",
                    !.urlencoded = UrlencodedList(<<[key |-> "a", value |-> "1"]>>)],
     [NoBody EXCEPT !.mode = "formdata", !.formdata = <<<<[key |-> "a", value |-> "1"]>>>>],
     [NoBody EXCEPT !.mode = "graphql", !.graphql = "{\"query\":\"{me}\"}"],
     [NoBody EXCEPT !.mode = "file", !.file = "/tmp/upload"],
     NoBody}

SomeAuth ==
    [type |-> "basic", present |-> TRUE,
     kvs |-> <<[key |-> "username", value |-> JStr("alice")]>>]

SomeProxy == [host |-> "proxy.local", port |-> "8080", tunnel |-> FALSE]

SomeCertificate ==
    [name |-> "client", matches |-> <<<<"https://example.com">>>>,
     key |-> "key.pem", cert |-> "cert.pem", passphrase |-> Undefined,
     pfx |-> Undefined]

\* What a Request is constructed from beside url and body: nothing, all of
\* it, or headers as an object.
Extras ==
    {[method |-> "", header |-> [kind |-> "undefined", list |-> <<>>],
      auth |-> <<>>, proxy |-> <<>>, certificate |-> <<>>],
     [method |-> "POST",
      header |-> [kind |-> "array",
                  list |-> <<[key |-> "X", value |-> "1", disabled |-> FALSE],
                             [key |-> "Y", value |-> "3", disabled |-> TRUE]>>],
      auth |-> <<SomeAuth>>, proxy |-> <<SomeProxy>>,
      certificate |-> <<SomeCertificate>>],
     [method |-> "PUT",
      header |-> [kind |-> "object", list |-> <<[key |-> "X", value |-> "1"]>>],
      auth |-> <<>>, proxy |-> <<>>, certificate |-> <<SomeCertificate>>]}

RequestOptionsInputs ==
    {[url |-> UrlString(text), method |-> x.method, header |-> x.header,
      body |-> body, auth |-> x.auth, proxy |-> x.proxy,
      certificate |-> x.certificate] :
        text \in {"example.com", "http://example.com?q=1"},
        body \in {<<>>} \cup {<<b>> : b \in BodyOptions},
        x \in Extras}

RequestInit ==
    /\ BridgeInit
    /\ SdkIdle
    /\ AuthIdle
    /\ \E opts \in RequestOptionsInputs : Constructed(opts)

Targets == {"r", "c"}

RequestNext ==
    \/ CloneCall
    \/ FromJSONCall("r")
    \/ \E on \in Targets :
          GetHeadersCall(on, [ignoreCase |-> TRUE, enabled |-> FALSE,
                              sanitizeKeys |-> FALSE])
    \/ \E on \in Targets : RemoveHeaderCall(on, RemoveString("X"), FALSE)
    \/ \E on \in Targets :
          UpsertHeaderCall(on, [key |-> "Y", value |-> "9", disabled |-> FALSE])
    \/ \E on \in Targets :
          AddHeaderCall(on, [key |-> "Z", value |-> "5", disabled |-> FALSE])
    \/ \E on \in Targets : AddQueryParamsCall(on, [key |-> "page", value |-> "1"])
    \/ \E on \in Targets : RemoveQueryParamsCall(on, "q")
    \/ \E on \in Targets : AuthorizeUsingCall(on, "digest")

SpecRequest == RequestInit /\ [][RequestNext]_vars

\* ------------------------------------------------------- C14, C15, C16
JSONOf(name) == ToJSON(reqs[name][1], urls)

\* C14: for every Request r, with or without body, proxy and certificate and
\* with a url given with or without a scheme, new Request(r.toJSON()).toJSON()
\* is deeply equal to r.toJSON().
C14_ToJSONRoundTrip ==
    (call # <<>> /\ call[1].op = "fromJSON") => JSONOf("n") = JSONOf(call[1].on)

C14_Witness ==
    /\ call # <<>>
    /\ call[1].op = "fromJSON"
    /\ requestOptions[1].url.text = "example.com"
    /\ JSONOf("n").url.text = "https://example.com"
    /\ requestOptions[1].body # <<>>
    /\ requestOptions[1].body[1].urlencoded.kind = "list"
    /\ requestOptions[1].proxy = <<>>
    /\ JSONOf("n").body[1].urlencoded.list = <<[key |-> "a", value |-> "1"]>>

\* Deep equality of two Requests: the same url, method, ordered headers and
\* auth, and body, proxy and certificate either absent in both or equal.
DeeplyEqual(a, b) ==
    /\ urls[a.url] = urls[b.url]
    /\ a.method = b.method
    /\ a.headers = b.headers
    /\ a.auth = b.auth
    /\ a.body = b.body
    /\ a.proxy = b.proxy
    /\ a.certificate = b.certificate

\* C15: r.clone() is deeply equal to r, a Request without body or
\* certificate cloning to one without body or certificate.
C15_CloneDeeplyEqual ==
    (call # <<>> /\ call[1].op = "clone") =>
        DeeplyEqual(reqs["c"][1], reqs["r"][1])

MutatingCalls ==
    {"addHeader", "upsertHeader", "removeHeader", "getHeaders", "addQueryParams",
     "removeQueryParams", "authorizeUsing"}

\* C16: after c = r.clone(), a call of addHeader, upsertHeader, removeHeader,
\* getHeaders({ignoreCase: true}), addQueryParams, removeQueryParams or
\* authorizeUsing on c leaves r.toJSON() as it was, and one on r leaves
\* c.toJSON() as it was.
C16_CloneSharesNothing ==
    [][(reqs["c"] # <<>> /\ call' # <<>> /\ call'[1].op \in MutatingCalls) =>
           /\ call'[1].on = "c" =>
                  ToJSON(reqs'["r"][1], urls') = ToJSON(reqs["r"][1], urls)
           /\ call'[1].on = "r" =>
                  ToJSON(reqs'["c"][1], urls') = ToJSON(reqs["c"][1], urls)]_vars

\* ============================================================ RequestBody
Nullish_Falsy(text) == text \in {Undefined, ""}

\* x == null, of a string field
Nullish(text) == text = Undefined

UnexpectedMode(mode) == Thrown("mode (" \o mode \o ") is unexpected")

\* body.isEmpty()
IsEmpty(b) ==
    CASE b.mode = "formdata" -> Returned(b.formdata = <<>>)
      [] b.mode = "urlencoded" -> Returned(b.urlencoded = <<>>)
      [] b.mode = "raw" -> Returned(Nullish(b.raw))
      [] b.mode = "file" -> Returned(Nullish(b.file))
      [] b.mode = "graphql" -> Returned(Nullish(b.graphql))
      [] OTHER -> UnexpectedMode(b.mode)

\* list.toString(), of a list of key/value parameters
PropertyListToString(list) == QueryText(list)

\* What the switch of toString returns or throws.
ToStringSwitch(b) ==
    CASE b.mode = "formdata" ->
            Returned(IF b.formdata # <<>> THEN PropertyListToString(b.formdata[1])
                     ELSE "")
      [] b.mode = "urlencoded" ->
            Returned(IF b.urlencoded # <<>>
                     THEN PropertyListToString(b.urlencoded[1]) ELSE "")
      [] b.mode = "raw" -> Returned(IF b.raw \notin {Undefined, ""} THEN b.raw ELSE "")
      [] b.mode = "file" -> Returned(IF b.file \notin {Undefined, ""} THEN b.file ELSE "")
      [] b.mode = "graphql" ->
            Returned(IF b.graphql # Undefined THEN b.graphql ELSE "")
      [] OTHER -> UnexpectedMode(b.mode)

Caught_Rethrown(outcome) == outcome

\* catch (e) { return ''; }
Caught(outcome) == IF outcome.threw THEN Returned("") ELSE outcome

\* body.toString()
BodyToString(b) == Caught(ToStringSwitch(b))

BodyModes == {"formdata", "urlencoded", "raw", "file", "graphql", Undefined, "binary"}

RequestBodyOptionsInputs ==
    [mode : BodyModes,
     file : {Undefined, "/tmp/upload"},
     formdata : {<<>>, <<<<[key |-> "a", value |-> "1"]>>>>},
     graphql : {Undefined, "{\"query\":\"{me}\"}"},
     raw : {Undefined, "", "hello"},
     urlencoded : {NoUrlencoded, UrlencodedString(""), UrlencodedString("a=1"),
                   UrlencodedList(<<[key |-> "a", value |-> "1"]>>)}]

BodyInit ==
    /\ BridgeInit
    /\ SdkIdle
    /\ AuthIdle
    /\ requestOptions = <<>>
    /\ urls = <<>>
    /\ reqs = [name \in RequestNames |-> <<>>]
    /\ call = <<>>
    /\ mutations = 0
    /\ \E opts \in RequestBodyOptionsInputs : requestBody = <<NewRequestBody(opts)>>
    /\ isEmptyOut = <<>>
    /\ toStringOut = <<>>

IsEmptyCall ==
    /\ requestBody # <<>>
    /\ isEmptyOut = <<>>
    /\ isEmptyOut' = <<IsEmpty(requestBody[1])>>
    /\ UNCHANGED <<requestOptions, urls, reqs, call, mutations, requestBody,
                   toStringOut,
                   bridgeVars, sdkVars, authVars>>

ToStringCall ==
    /\ requestBody # <<>>
    /\ toStringOut = <<>>
    /\ toStringOut' = <<BodyToString(requestBody[1])>>
    /\ UNCHANGED <<requestOptions, urls, reqs, call, mutations, requestBody,
                   isEmptyOut,
                   bridgeVars, sdkVars, authVars>>

BodyNext == IsEmptyCall \/ ToStringCall

SpecBody == BodyInit /\ [][BodyNext]_vars

\* --------------------------------------------------------------- C20
RecognizedModes == {"formdata", "urlencoded", "raw", "file", "graphql"}

\* Is the payload field of the body's mode null or undefined?
PayloadMissing(b) ==
    CASE b.mode \in {"formdata", "urlencoded"} -> b[b.mode] = <<>>
      [] OTHER -> b[b.mode] = Undefined

\* C20: for a RequestBody whose mode is none of formdata, urlencoded, raw,
\* file, graphql (undefined too), isEmpty() fails with an error naming the
\* mode while toString() returns '' without failing; for a recognized mode
\* isEmpty() is true exactly when the payload field of the mode is null or
\* undefined, and neither call fails.
C20_IsEmptyThrowsToStringDoesNot ==
    /\ isEmptyOut # <<>> =>
           IF requestBody[1].mode \in RecognizedModes
           THEN /\ ~isEmptyOut[1].threw
                /\ isEmptyOut[1].value = PayloadMissing(requestBody[1])
           ELSE /\ isEmptyOut[1].threw
                /\ isEmptyOut[1].error = "mode (" \o requestBody[1].mode \o ") is unexpected"
    /\ toStringOut # <<>> =>
           /\ ~toStringOut[1].threw
           /\ requestBody[1].mode \notin RecognizedModes => toStringOut[1].value = ""

C20_Witness ==
    /\ requestBody # <<>>
    /\ requestBody[1].mode = Undefined
    /\ requestBody[1].raw = "hello"
    /\ isEmptyOut # <<>>
    /\ isEmptyOut[1].threw
    /\ toStringOut = <<Returned("")>>

\* ------------------------------------------------------------ the Response
\* Most Set-Cookie headers a hop carries.
MaxSetCookies == 2

\* What Cookie.parse (tough-cookie) makes of a Set-Cookie value: a cookie, or
\* undefined or null for a value it cannot parse.
ParsedCookie(key, value, path) ==
    [t |-> "cookie", key |-> key, value |-> value, path |-> path]
NoCookie == [t |-> "undefined", key |-> "", value |-> "", path |-> ""]
NullCookie == [t |-> "null", key |-> "", value |-> "", path |-> ""]

\* What the parser returns for the empty string differs between releases of
\* the library (a bare return, or return null); emptyIs is the one in use.
EmptyParses == {NoCookie, NullCookie}

\* Cookie.parse(str): a name=value pair parses, a value without '=' does not.
CookieParse(str, emptyIs) ==
    CASE str = "sid=abc; Path=/" -> ParsedCookie("sid", "abc", "/")
      [] str = "tok=1" -> ParsedCookie("tok", "1", Undefined)
      [] str = "early=1" -> ParsedCookie("early", "1", Undefined)
      [] str = "" -> emptyIs
      [] OTHER -> NoCookie

\* if (cookieObj != null) { return {key, value, ...}; } return cookieObj;
CookieOptionsOf(cookieObj) ==
    IF cookieObj.t \notin {"undefined", "null"}
    THEN ParsedCookie(cookieObj.key, cookieObj.value, cookieObj.path)
    ELSE cookieObj

IsSetCookie(header) == LowerCase(header.name) = "set-cookie"

\* .filter(cookieOpt => cookieOpt !== undefined)
KeepsCookie(cookieOpt) == cookieOpt.t # "undefined"

\* The cookie options of the lift: the set-cookie headers of lastRedirect,
\* each parsed (cookieHeader.value || ''), the undefined results left out.
CookiesOf(lastRedirect, emptyIs) ==
    LET cookieHeaders == SelectSeq(lastRedirect.headers, IsSetCookie)
        parsed == [i \in 1..Len(cookieHeaders) |->
                      CookieOptionsOf(CookieParse(cookieHeaders[i].value, emptyIs))]
    IN SelectSeq(parsed, KeepsCookie)

\* RESPONSE_CODE_REASONS[code]: the phrase of a code the table has.
RESPONSE_CODE_REASONS(code) ==
    CASE code = 200 -> "OK"
      [] code = 302 -> "Found"
      [] code = 404 -> "Not Found"
      [] OTHER -> Undefined

\* new Cookie(cookie) reads the fields of its argument: a TypeError for null.
NewCookieThrows(cookieOpt) == cookieOpt.t = "null"

\* this.status = RESPONSE_CODE_REASONS[options.code]
Status(options) == RESPONSE_CODE_REASONS(options.code)

\* new Response(options); an absent option is Undefined (an absent list <<>>).
NewResponse(options) ==
    IF \E i \in 1..Len(options.cookie) : NewCookieThrows(options.cookie[i])
    THEN Thrown("TypeError: Cannot read properties of null")
    ELSE Returned([body |-> IF options.body = Undefined THEN "" ELSE options.body,
                   code |-> options.code,
                   cookies |-> options.cookie,
                   headers |-> options.header,
                   responseTime |-> options.responseTime,
                   status |-> Status(options)])

\* reason() { return this.status; }
Reason(resp) == resp.status

\* fromCurlOutputToResponse(result), br being what the awaited
\* readCurlResponse resolves with when there is a stored body.
FromCurlOutputToResponse(output, br, emptyIs) ==
    IF LiftThrows(output) THEN Thrown("TypeError: " \o LiftError.message)
    ELSE LET lastRedirect == LastRedirect(output.headerResults)
             options(body) ==
                 [code |-> lastRedirect.code,
                  reason |-> lastRedirect.reason,
                  header |-> ResponseHeaders(lastRedirect),
                  cookie |-> CookiesOf(lastRedirect, emptyIs),
                  body |-> body,
                  responseTime |-> output.elapsedTime,
                  status |-> lastRedirect.reason]
         IN IF ~NeedsBodyRead(output) THEN NewResponse(options(""))
            ELSE IF ReadFails(br) THEN Thrown(br.error)
            ELSE NewResponse(options(br.body))

\* ------------------------------------------------------- Response inputs
SetCookieHeaders ==
    {[name |-> "Set-Cookie", value |-> "sid=abc; Path=/"],
     [name |-> "set-cookie", value |-> "tok=1"],
     [name |-> "SET-COOKIE", value |-> "nokey"],
     [name |-> "Set-Cookie", value |-> ""],
     [name |-> "Content-Type", value |-> "text/plain"]}

\* The status lines a final hop may carry: the table's phrase, another
\* phrase, none (HTTP/2), and a code the table lacks.
StatusLines ==
    {[code |-> 200, reason |-> "OK"], [code |-> 200, reason |-> "Fine"],
     [code |-> 404, reason |-> ""], [code |-> 299, reason |-> "Custom"]}

CookieFinalHops ==
    {[code |-> line.code, reason |-> line.reason, headers |-> headers] :
        line \in StatusLines, headers \in SeqsUpTo(SetCookieHeaders, MaxSetCookies)}

\* A followed redirect that set a cookie of its own.
CookieRedirectHop ==
    [code |-> 302, reason |-> "Found",
     headers |-> <<[name |-> "Set-Cookie", value |-> "early=1"],
                   [name |-> "Location", value |-> "/next"]>>]

LiftInputs ==
    [output : [headerResults : {<<>>} \cup {<<f>> : f \in CookieFinalHops}
                   \cup {<<CookieRedirectHop, f>> : f \in CookieFinalHops},
               responseBodyPath : BodyPaths, elapsedTime : {7}],
     bodyResult : BodyResults,
     emptyIs : EmptyParses]

ResponseOptionsInputs ==
    [code : {200, 299}, reason : {Undefined, "Fine"}, header : {<<>>},
     cookie : {<<>>, <<ParsedCookie("sid", "abc", "/")>>},
     body : {Undefined, "hello"}, responseTime : {7},
     status : {Undefined, "Fine"}]

ResponseInit ==
    /\ BridgeInit
    /\ AuthIdle
    /\ RequestIdle
    /\ response = <<>>
    /\ lowerIn = <<>>
    /\ lowerOut = <<>>
    /\ updateOptions = <<>>
    /\ \/ curlResult \in {<<i>> : i \in LiftInputs} /\ responseOptions = <<>>
       \/ curlResult = <<>> /\ responseOptions \in {<<o>> : o \in ResponseOptionsInputs}

\* The bridge lifts the engine result.
Lift ==
    /\ curlResult # <<>>
    /\ response = <<>>
    /\ response' = <<FromCurlOutputToResponse(curlResult[1].output,
                                              curlResult[1].bodyResult,
                                              curlResult[1].emptyIs)>>
    /\ UNCHANGED <<curlResult, responseOptions, lowerVars, updateOptions,
                   bridgeVars, authVars, requestVars>>

\* A script constructs a Response itself.
Construct ==
    /\ responseOptions # <<>>
    /\ response = <<>>
    /\ response' = <<NewResponse(responseOptions[1])>>
    /\ UNCHANGED <<curlResult, responseOptions, lowerVars, updateOptions,
                   bridgeVars, authVars, requestVars>>

ResponseNext == Lift \/ Construct

SpecResponse == ResponseInit /\ [][ResponseNext]_vars

\* --------------------------------------------------------------- C21
\* The lift of curlResult went through to the constructor.
LiftReached ==
    /\ curlResult # <<>>
    /\ response # <<>>
    /\ ~LiftThrows(curlResult[1].output)
    /\ NeedsBodyRead(curlResult[1].output) => ~ReadFails(curlResult[1].bodyResult)

FinalHopOf(input) == input.output.headerResults[Len(input.output.headerResults)]

SetCookieNames == {"Set-Cookie", "set-cookie", "SET-COOKIE"}

\* The cookies the final hop's set-cookie headers parse to, in header order.
RECURSIVE ParsedOf(_, _)
ParsedOf(headers, emptyIs) ==
    IF headers = <<>> THEN <<>>
    ELSE LET h == Head(headers)
             c == CookieParse(h.value, emptyIs)
         IN (IF h.name \in SetCookieNames /\ c.t = "cookie" THEN <<c>> ELSE <<>>)
            \o ParsedOf(Tail(headers), emptyIs)

\* C21: the cookies of the Response built from an engine result are exactly
\* the successfully parsed values of the final hop's headers named set-cookie
\* in any casing, in header order; a value that fails to parse contributes no
\* entry and raises no error, and earlier hops contribute nothing.
C21_CookiesOfFinalHop ==
    LiftReached =>
        /\ ~response[1].threw
        /\ response[1].value.cookies =
               ParsedOf(FinalHopOf(curlResult[1]).headers, curlResult[1].emptyIs)

\* The same, for a parser that returns undefined for every value it cannot parse.
C21_WhenFailureIsUndefined ==
    (LiftReached /\ curlResult[1].emptyIs = NoCookie) =>
        /\ ~response[1].threw
        /\ response[1].value.cookies =
               ParsedOf(FinalHopOf(curlResult[1]).headers, curlResult[1].emptyIs)

\* --------------------------------------------------------------- C26
\* The reason phrase supplied to the constructor, if any.
SuppliedPhrase ==
    IF curlResult # <<>> THEN FinalHopOf(curlResult[1]).reason
    ELSE IF responseOptions[1].status # Undefined THEN responseOptions[1].status
    ELSE responseOptions[1].reason

Supplied(phrase) == phrase \notin {Undefined, ""}

\* C26: a Response's status, which reason() returns, is the reason phrase
\* supplied at construction when one is supplied (the final hop's reason for a
\* Response the bridge built); only without one is it the status-code table's
\* phrase, and undefined for a code the table lacks.
C26_StatusIsSuppliedPhrase ==
    (response # <<>> /\ (curlResult # <<>> => LiftReached) /\ ~response[1].threw) =>
        Reason(response[1].value) =
            IF Supplied(SuppliedPhrase) THEN SuppliedPhrase
            ELSE CASE response[1].value.code = 200 -> "OK"
                   [] response[1].value.code = 404 -> "Not Found"
                   [] OTHER -> Undefined

\* What holds instead: the status is the table's phrase for the code,
\* whatever phrase was supplied.
C26_StatusIsTablePhrase ==
    (response # <<>> /\ ~response[1].threw) =>
        Reason(response[1].value) =
            CASE response[1].value.code = 200 -> "OK"
              [] response[1].value.code = 404 -> "Not Found"
              [] OTHER -> Undefined

\* --------------------------------------------------------------- C22
\* Completed, Cancelled, Failed.
Terminal(c) == phase[c] \in {"Completed", "Cancelled", "Failed"}

\* Lowering succeeded and the engine was invoked: the call is dispatched, or
\* the invocation threw and the catch block ended the call.
LoweredStep(c) ==
    (phase[c] = "Idle" /\ phase'[c] \notin {"Idle", "LoweringFailed"}) =>
        /\ phase'[c] \in {"Dispatched", "Cancelled", "Failed"}
        /\ engineCalls'[c] = 1

\* From Dispatched a call goes to a terminal state, or to the body read, and
\* from the body read to Completed or Failed; it is Completed only when the
\* engine call has settled, and the body read if the result has a stored body.
AfterDispatchStep(c) ==
    /\ (phase[c] = "Dispatched" /\ phase'[c] # "Dispatched") =>
           (phase'[c] = "Reading" \/ phase'[c] \in {"Completed", "Cancelled", "Failed"})
    /\ (phase[c] = "Reading" /\ phase'[c] # "Reading") =>
           phase'[c] \in {"Completed", "Failed"}
    /\ (phase[c] # "Completed" /\ phase'[c] = "Completed") =>
           /\ engine'[c] = "settled"
           /\ result'[c][1].responseBodyPath # Undefined => read'[c] = "settled"

\* No transition leaves a terminal state, and the engine is not invoked again.
TerminalStep(c) ==
    /\ Terminal(c) => phase'[c] = phase[c]
    /\ phase[c] # "Idle" => engineCalls'[c] = engineCalls[c]

C22_Steps ==
    [][\A c \in Calls : LoweredStep(c) /\ AfterDispatchStep(c) /\ TerminalStep(c)]_vars

\* The engine call of c has settled, and so has the body read if there is one.
Settled(c) == engine[c] = "settled" /\ read[c] # "pending"

\* The cancel handle of c was invoked.
CancelInvoked(c) == aborted[c]

\* The cancel handle of c was invoked and the engine call had not settled.
CancelInvokedWhilePending(c) == aborted[c] /\ engine[c] = "pending"

\* One call whose cancel handle is invoked once it is registered, whatever
\* the engine and the body read do: they may settle, and they may not.
SpecCancel ==
    Init /\ [][LiftNext]_vars /\ WF_vars(\E id \in AllRequestIds : CancelRequest(id))

LoweredHeaderLists ==
    LET userAgentOff == [key |-> "User-Agent", value |-> "insomnia", disabled |-> TRUE]
        userAgentOn == [key |-> "USER-AGENT", value |-> "insomnia", disabled |-> FALSE]
        accept == [key |-> "Accept", value |-> "*/*", disabled |-> FALSE]
    IN {<<>>, <<userAgentOff>>, <<userAgentOn>>, <<accept>>, <<accept, userAgentOff>>}

\* A URL string; a Request with an id, and one without; a RequestOptions object.
LoweredRequestLikes ==
    {[kind |-> "string", id |-> Undefined, authType |-> "noauth", headers |-> <<>>]}
    \cup [kind : {"Request"}, id : CallerIds \cup {Undefined}, authType : {"basic"},
          headers : LoweredHeaderLists]
    \cup [kind : {"RequestOptions"}, id : {Undefined}, authType : {"basic"},
          headers : LoweredHeaderLists]

\* finalReq.headers.map(h => h.key.toLowerCase() === 'user-agent'
\*     && h.disabled === true, {}).length > 0: map yields one entry per header.
SuppressUserAgent(headers) ==
    LET mapped == [i \in 1..Len(headers) |->
                      LowerCase(headers[i].key) = "user-agent" /\ headers[i].disabled]
    IN Len(mapped) > 0

\* The options fromRequestToCurlOptions returns for a Request or an options
\* object, as far as the checks read them.
LoweredOptions(req, id) ==
    [requestId |-> FromRequestToCurlOptions(req, id).requestId,
     suppressUserAgent |->
         IF req.kind = "string" THEN FALSE ELSE SuppressUserAgent(req.headers)]

\* sendRequest(req, cb), the script keeping what it passed and the engine
\* what it was handed.
SendRequestLowered(c, req) ==
    /\ Dispatch(c, req, <<>>, FALSE)
    /\ lowerIn' = Append(lowerIn, req)
    /\ lowerOut' = Append(lowerOut, LoweredOptions(req, Uuid(uuidCount + 1)))
    /\ UNCHANGED <<authVars, requestVars, liftVars, updateOptions>>

LowerNext ==
    \/ \E c \in Calls, req \in LoweredRequestLikes : SendRequestLowered(c, req)
    \/ \E id \in AllRequestIds : CancelRequest(id)

SpecLower == Init /\ [][LowerNext]_vars

\* --------------------------------------------------------------- C23
\* The calls made so far.
Lowered == 1..Len(lowerIn)

HasId(req) == req.kind = "Request" /\ req.id # Undefined

\* C23: lowering mints a fresh request id for a bare string and for a
\* Request or options input without an id, so no other call has it; for a
\* Request that has an id the lowered requestId is that id, so two calls in
\* flight with the same Request are registered under one registry key.
C23_FreshUnlessRequestHasId ==
    \A c \in Lowered :
        /\ ~HasId(lowerIn[c]) =>
               \A d \in Lowered \ {c} : requestId[d] # requestId[c]
        /\ HasId(lowerIn[c]) =>
               /\ requestId[c] = lowerIn[c].id
               /\ lowerOut[c].requestId = lowerIn[c].id
               /\ \A d \in Lowered :
                      (HasId(lowerIn[d]) /\ lowerIn[d].id = lowerIn[c].id) =>
                          /\ requestId[d] = requestId[c]
                          /\ Cardinality({e \in registry : e[1] = requestId[c]}) = 1

\* Two calls with the same Request are in flight.
C23_Witness ==
    /\ Len(lowerIn) = 2
    /\ HasId(lowerIn[1])
    /\ lowerIn[2] = lowerIn[1]
    /\ phase[1] = "Dispatched"
    /\ phase[2] = "Dispatched"

\* --------------------------------------------------------------- C28
IsDisabledUserAgent(header) ==
    header.key \in {"User-Agent", "USER-AGENT", "user-agent"} /\ header.disabled

\* C28: in the options lowered from a Request or an options object,
\* suppressUserAgent is true exactly when the request has a disabled header
\* whose key is 'user-agent' in any casing.
C28_SuppressUserAgentIffDisabledHeader ==
    \A c \in Lowered :
        lowerIn[c].kind # "string" =>
            (lowerOut[c].suppressUserAgent <=>
                \E i \in 1..Len(lowerIn[c].headers) :
                    IsDisabledUserAgent(lowerIn[c].headers[i]))

\* What holds instead: suppressUserAgent is true exactly when the request
\* has a header at all.
C28_SuppressUserAgentIffAnyHeader ==
    \A c \in Lowered :
        lowerIn[c].kind # "string" =>
            (lowerOut[c].suppressUserAgent <=> lowerIn[c].headers # <<>>)

\* --------------------------------------------------------------- C24
\* C24: getHeaders with ignoreCase lower-cases in place the stored key of
\* every header it includes and changes nothing else: values, disabled flags,
\* order, and the keys of the excluded headers stay; without ignoreCase the
\* header list is unchanged.
C24_GetHeadersFoldsIncludedKeysOnly ==
    OnlyCall("getHeaders") =>
        LET o == call[1].arg
            Included(h) ==
                /\ h.key # ""
                /\ o.enabled => ~h.disabled
                /\ o.sanitizeKeys => h.value # ""
        IN /\ Len(HeadersAfter) = Len(HeadersBefore)
           /\ \A i \in 1..Len(HeadersBefore) :
                  /\ HeadersAfter[i].value = HeadersBefore[i].value
                  /\ HeadersAfter[i].disabled = HeadersBefore[i].disabled
                  /\ HeadersAfter[i].key =
                         IF o.ignoreCase /\ Included(HeadersBefore[i])
                         THEN LowerCase(HeadersBefore[i].key)
                         ELSE HeadersBefore[i].key
           /\ ~o.ignoreCase => HeadersAfter = HeadersBefore

\* An included header's key was folded and an excluded header's key was not.
C24_Witness ==
    /\ OnlyCall("getHeaders")
    /\ call[1].arg.ignoreCase
    /\ \E i, j \in 1..Len(HeadersBefore) :
          /\ HeadersBefore[i].key = "X" /\ HeadersAfter[i].key = "x"
          /\ HeadersBefore[j].key = "Y" /\ HeadersAfter[j].key = "Y"

\* --------------------------------------------------------------- C25
\* The structured list that says what the encoded string says.
EquivalentList(text) ==
    CASE text = "a=1" -> <<[key |-> "a", value |-> "1"]>>
      [] text = "a=1&b=2" -> <<[key |-> "a", value |-> "1"], [key |-> "b", value |-> "2"]>>
      [] OTHER -> <<>>

\* C25: a RequestBody constructed with urlencoded given as an encoded string
\* and one constructed with the equivalent structured list end with the same
\* ordered key/value list.
C25_StringAndListNormalizeAlike ==
    \A opts \in RequestBodyOptionsInputs :
        (/\ opts.urlencoded.kind = "string"
         /\ opts.urlencoded.text # ""
         /\ requestBody = <<NewRequestBody(opts)>>) =>
            requestBody[1].urlencoded =
                NewRequestBody(
                    [opts EXCEPT !.urlencoded =
                        UrlencodedList(EquivalentList(opts.urlencoded.text))]).urlencoded

\* What holds instead: the string's values are there as JSON string
\* literals, the keys and the order being those of the list.
C25_StringValuesAreQuoted ==
    \A opts \in RequestBodyOptionsInputs :
        (/\ opts.urlencoded.kind = "string"
         /\ opts.urlencoded.text # ""
         /\ requestBody = <<NewRequestBody(opts)>>) =>
            LET list == EquivalentList(opts.urlencoded.text) IN
            requestBody[1].urlencoded =
                <<[i \in 1..Len(list) |->
                      [key |-> list[i].key, value |-> "\"" \o list[i].value \o "\""]]>>

\* --------------------------------------------------------------- C27
\* C27: once the callback of a call has fired, invoking the call's cancel
\* handle, which the registry still holds, never invokes the callback again
\* and never changes the outcome delivered: no step at all does.
C27_CancelAfterCallbackChangesNothing ==
    [][\A c \in Calls :
          cbLog[c] # <<>> => (cbLog'[c] = cbLog[c] /\ phase'[c] = phase[c])]_vars

\* The cancel handle of a completed call was invoked: there was no body read
\* during which it could have been invoked before the callback fired.
C27_Witness ==
    /\ phase[1] = "Completed"
    /\ readCalls[1] = 0
    /\ aborted[1]
    /\ requestId[1] \in engineCancelled
    /\ Len(cbLog[1]) = 1

\* ---------------------------------------------------------------- update
\* The urlencoded list body.update(opts) leaves: as the constructor's, but
\* for a structured list `value: JSON.stringify(entry.value)`.
UpdatedUrlencodedOf(urlencoded) ==
    IF urlencoded.kind = "string"
    THEN IF urlencoded.text # ""
         THEN <<Map(LAMBDA e : [key |-> e.key, value |-> JsonStringify(e.value)],
                    QueryParamParse(urlencoded.text))>>
         ELSE <<>>
    ELSE IF urlencoded.kind = "list"
         THEN <<Map(LAMBDA e : [key |-> e.key, value |-> JsonStringify(e.value)],
                    urlencoded.list)>>
         ELSE <<>>

\* body.update(opts): every field of the body is assigned.
RequestBodyUpdate(body, opts) ==
    [body EXCEPT
        !.file = opts.file,
        !.formdata = IF opts.formdata # <<>>
                     THEN <<Map(LAMBDA f : [key |-> f.key, value |-> f.value],
                                opts.formdata[1])>>
                     ELSE <<>>,
        !.graphql = opts.graphql,
        !.mode = opts.mode,
        !.raw = opts.raw,
        !.urlencoded = UpdatedUrlencodedOf(opts.urlencoded)]

\* request.update(options), with the Urls there are: a url given as a string
\* makes a new Url of the string as it is.
RequestUpdate(req, options, heap) ==
    [req |->
        [req EXCEPT
            !.url = IF options.url.isString THEN Len(heap) + 1 ELSE options.url.ref,
            !.method = IF options.method # "" THEN options.method ELSE "GET",
            !.headers = HeadersOf(options.header),
            !.body = IF options.body # <<>>
                     THEN <<NewRequestBody(options.body[1])>> ELSE <<>>,
            !.auth = IF options.auth # <<>> THEN options.auth[1]
                     ELSE BareAuth("noauth"),
            !.proxy = IF options.proxy # <<>> THEN <<options.proxy[1]>> ELSE <<>>,
            !.certificate = IF options.certificate # <<>>
                            THEN <<options.certificate[1]>> ELSE <<>>],
     heap |-> IF options.url.isString
              THEN Append(heap, NewUrl(options.url.text)) ELSE heap]

\* A Request and a RequestBody to update.
UpdateInit ==
    /\ BridgeInit
    /\ SdkIdle
    /\ AuthIdle
    /\ \E opts \in {o \in RequestOptionsInputs : o.body = <<>> /\ o.method = ""} :
          LET made == NewRequest(opts, <<>>) IN
          /\ requestOptions = <<opts>>
          /\ urls = made.heap
          /\ reqs = [name \in RequestNames |->
                        IF name = "r" THEN <<made.req>> ELSE <<>>]
    /\ call = <<>>
    /\ mutations = 0
    /\ requestBody = <<NewRequestBody([NoBody EXCEPT !.mode = "raw", !.raw = "old"])>>
    /\ isEmptyOut = <<>>
    /\ toStringOut = <<>>

RequestUpdateCall(options) ==
    /\ updateOptions = <<>>
    /\ LET updated == RequestUpdate(reqs["r"][1], options, urls) IN
       /\ reqs' = [reqs EXCEPT !["r"] = <<updated.req>>]
       /\ urls' = updated.heap
    /\ updateOptions' = <<[on |-> "Request", options |-> options]>>
    /\ UNCHANGED <<requestOptions, call, mutations, requestBody, isEmptyOut,
                   toStringOut, liftVars, lowerVars, bridgeVars, authVars>>

RequestBodyUpdateCall(opts) ==
    /\ updateOptions = <<>>
    /\ requestBody' = <<RequestBodyUpdate(requestBody[1], opts)>>
    /\ updateOptions' = <<[on |-> "RequestBody", options |-> opts]>>
    /\ UNCHANGED <<requestOptions, urls, reqs, call, mutations, isEmptyOut,
                   toStringOut, liftVars, lowerVars, bridgeVars, authVars>>

UpdateNext ==
    \/ \E options \in RequestOptionsInputs : RequestUpdateCall(options)
    \/ \E opts \in RequestBodyOptionsInputs : RequestBodyUpdateCall(opts)

SpecUpdate == UpdateInit /\ [][UpdateNext]_vars

\* --------------------------------------------------------------- C29
\* A Request with its Url in place of the reference to it.
WithUrl(req, heap) == [req EXCEPT !.url = heap[req.url]]

Fresh(options) ==
    LET made == NewRequest(options, <<>>) IN WithUrl(made.req, made.heap)

\* C29: update(opts) leaves a RequestBody in the state of new
\* RequestBody(opts), and a Request in the state of new Request(opts).
C29_UpdateIsConstruction ==
    updateOptions # <<>> =>
        IF updateOptions[1].on = "RequestBody"
        THEN requestBody[1] = NewRequestBody(updateOptions[1].options)
        ELSE WithUrl(reqs["r"][1], urls) = Fresh(updateOptions[1].options)

\* What holds instead: the two agree unless the body's urlencoded is a
\* structured list or the request's url string has no scheme.
C29_UpdateIsConstructionExceptListAndSchemelessUrl ==
    updateOptions # <<>> =>
        LET options == updateOptions[1].options IN
        IF updateOptions[1].on = "RequestBody"
        THEN options.urlencoded.kind # "list" =>
                 requestBody[1] = NewRequestBody(options)
        ELSE HasScheme(options.url.text) =>
                 WithUrl(reqs["r"][1], urls) = Fresh(options)
====
